---- MODULE Spec2Model ----
(***************************************************************************)
(* KENKI OS AI assistant: the command-line assistant (kenki_assist.py),   *)
(* the command explainer (explain.py), the shell translator               *)
(* (translate.py) and the voice interface (voice.py).                     *)
(*                                                                         *)
(* Python strings are sequences of one-character strings, so that strip,  *)
(* lower, startswith, split and the `in` substring test are computed as   *)
(* Python computes them.  A character outside ASCII is the string that    *)
(* names its code point ("U+274C").                                        *)
(***************************************************************************)
EXTENDS Integers, Sequences, FiniteSets, TLC

(***************************************************************************)
(* Python str operations                                                   *)
(***************************************************************************)
UpperChars == <<"A", "B", "C", "D", "E", "F", "G", "H", "I", "J", "K", "L", "M", "N", "O", "P", "Q", "R", "S", "T", "U", "V", "W", "X", "Y", "Z">>
LowerChars == <<"a", "b", "c", "d", "e", "f", "g", "h", "i", "j", "k", "l", "m", "n", "o", "p", "q", "r", "s", "t", "u", "v", "w", "x", "y", "z">>
Digits == {"0", "1", "2", "3", "4", "5", "6", "7", "8", "9"}
Letters == {UpperChars[i] : i \in 1..Len(UpperChars)} \cup {LowerChars[i] : i \in 1..Len(LowerChars)}
AlphaNum == Letters \cup Digits
Whitespace == {" ", "\t", "\n"}
LowerOf ==
  [c \in AlphaNum |->
     IF \E i \in 1..Len(UpperChars) : UpperChars[i] = c
       THEN LowerChars[CHOOSE i \in 1..Len(UpperChars) : UpperChars[i] = c]
       ELSE c]

RECURSIVE lower(_)
lower(s) ==
  IF Len(s) = 0 THEN <<>>
  ELSE IF Len(s) = 1 THEN <<IF s[1] \in DOMAIN LowerOf THEN LowerOf[s[1]] ELSE s[1]>>
  ELSE lower(SubSeq(s, 1, Len(s) \div 2)) \o lower(SubSeq(s, Len(s) \div 2 + 1, Len(s)))

isspace(c) == c \in Whitespace

RECURSIVE lstrip(_)
lstrip(s) == IF s # <<>> /\ isspace(Head(s)) THEN lstrip(Tail(s)) ELSE s

RECURSIVE rstrip(_)
rstrip(s) ==
  IF s # <<>> /\ isspace(s[Len(s)]) THEN rstrip(SubSeq(s, 1, Len(s) - 1)) ELSE s

strip(s) == rstrip(lstrip(s))

\* s[i+1 .. i+Len(p)] = p
at(s, i, p) == i + Len(p) <= Len(s) /\ \A k \in 1..Len(p) : s[i + k] = p[k]

startswith(s, p) == at(s, 0, p)

\* Python's `p in s` for strings
In(p, s) == \E i \in 0..(Len(s) - Len(p)) : at(s, i, p)

\* the first whitespace-delimited word of s and the rest after it
RECURSIVE take_word(_)
take_word(s) ==
  IF s = <<>> \/ isspace(Head(s)) THEN <<>> ELSE <<Head(s)>> \o take_word(Tail(s))

\* str.split(): the whitespace-delimited words of s
RECURSIVE split(_)
split(s) ==
  LET t == lstrip(s)
      w == take_word(t)
  IN IF t = <<>> THEN <<>> ELSE <<w>> \o split(SubSeq(t, Len(w) + 1, Len(t)))

(***************************************************************************)
(* External AI clients.  A call either raises or returns a text; what a   *)
(* backend answers is outside the program, so it is an input.             *)
(***************************************************************************)
Answers == {<<" ", "n", "m", "a", "p", " ", "-", "s", "V", " ", "h", "o", "s", "t", " ", "\n">>, <<"S", "t", "o", "p", " ", "t", "h", "e", " ", "s", "e", "r", "v", "i", "c", "e", " ", "f", "i", "r", "s", "t">>}
Raises == [ok |-> FALSE, text |-> <<>>]
Outcomes == {Raises} \cup {[ok |-> TRUE, text |-> a] : a \in Answers}

\* one request sent to a backend: the prompt template, the text put into it,
\* and what the call did
Call(backend, template, subject, outcome) ==
  [backend |-> backend, template |-> template, subject |-> subject,
   ok |-> outcome.ok, text |-> outcome.text]

\* what a method did: the string it returned (val), or that it raised (exc),
\* the backend calls it made, and for the KenkiAssistant operations the string
\* the module they delegate to returned (inner)
Return(val, calls) == [val |-> val, exc |-> FALSE, calls |-> calls, inner |-> <<>>]
Raise(calls) == [val |-> <<>>, exc |-> TRUE, calls |-> calls, inner |-> <<>>]

\* the str(e) of a caught exception: whatever the failing library reported
ExcText == <<"<", "e", "x", "c", "e", "p", "t", "i", "o", "n", ">">>

(***************************************************************************)
(* explain.py: CommandExplainer                                            *)
(***************************************************************************)
\* the keys of CommandExplainer.security_tools; the value of each key is the
\* method that sends that tool's prompt
security_tools ==
  { <<"n", "m", "a", "p">>, <<"m", "e", "t", "a", "s", "p", "l", "o", "i", "t">>, <<"s", "q", "l", "m", "a", "p">>, <<"h", "y", "d", "r", "a">>, <<"a", "i", "r", "c", "r", "a", "c", "k", "-", "n", "g">>,
    <<"w", "i", "r", "e", "s", "h", "a", "r", "k">>, <<"t", "c", "p", "d", "u", "m", "p">>, <<"n", "e", "t", "c", "a", "t">>, <<"j", "o", "h", "n">>, <<"h", "a", "s", "h", "c", "a", "t">>,
    <<"v", "o", "l", "a", "t", "i", "l", "i", "t", "y">>, <<"g", "h", "i", "d", "r", "a">>, <<"r", "a", "d", "a", "r", "e", "2">>, <<"b", "e", "e", "f">>, <<"m", "a", "l", "t", "e", "g", "o">>,
    <<"r", "e", "c", "o", "n", "-", "n", "g">>, <<"t", "h", "e", "h", "a", "r", "v", "e", "s", "t", "e", "r">>, <<"a", "m", "a", "s", "s">>, <<"d", "i", "r", "b">>, <<"n", "i", "k", "t", "o">>,
    <<"w", "p", "s", "c", "a", "n">>, <<"j", "o", "o", "m", "s", "c", "a", "n">>, <<"s", "k", "i", "p", "f", "i", "s", "h">>, <<"w", "3", "a", "f">>, <<"z", "a", "p">>, <<"b", "u", "r", "p">>,
    <<"n", "e", "s", "s", "u", "s">>, <<"o", "p", "e", "n", "v", "a", "s">> }

\* the name of the prompt template _explain_with_ai sends
GenericPrompt == <<"_", "e", "x", "p", "l", "a", "i", "n", "_", "w", "i", "t", "h", "_", "a", "i">>

PleaseProvideCommand == <<"U+274C", " ", "P", "l", "e", "a", "s", "e", " ", "p", "r", "o", "v", "i", "d", "e", " ", "a", " ", "c", "o", "m", "m", "a", "n", "d", " ", "t", "o", " ", "e", "x", "p", "l", "a", "i", "n", ".">>

\* CommandExplainer._fallback_explanation
_fallback_explanation(command) ==
  <<"\n", " ", " ", " ", " ", " ", " ", " ", " ", "U+1F4CB", " ", "C", "o", "m", "m", "a", "n", "d", ":", " ">> \o command
    \o <<"\n", " ", " ", " ", " ", " ", " ", " ", " ", "\n", " ", " ", " ", " ", " ", " ", " ", " ", "U+1F50D", " ", "B", "a", "s", "i", "c", " ", "E", "x", "p", "l", "a", "n", "a", "t", "i", "o", "n", ":", "\n", " ", " ", " ", " ", " ", " ", " ", " ", "T", "h", "i", "s", " ", "a", "p", "p", "e", "a", "r", "s", " ", "t", "o", " ", "b", "e", " ", "a", " ", "L", "i", "n", "u", "x", "/", "U", "n", "i", "x", " ", "c", "o", "m", "m", "a", "n", "d", ".", " ", "W", "i", "t", "h", "o", "u", "t", " ", "A", "I", " ", "a", "s", "s", "i", "s", "t", "a", "n", "c", "e", ",", " ", "I", " ", "c", "a", "n", "'", "t", " ", "p", "r", "o", "v", "i", "d", "e", " ", "a", " ", "d", "e", "t", "a", "i", "l", "e", "d", " ", "e", "x", "p", "l", "a", "n", "a", "t", "i", "o", "n", ".", "\n", " ", " ", " ", " ", " ", " ", " ", " ", "\n", " ", " ", " ", " ", " ", " ", " ", " ", "U+1F4A1", " ", "T", "i", "p", "s", ":", "\n", " ", " ", " ", " ", " ", " ", " ", " ", "-", " ", "U", "s", "e", " ", "'", "m", "a", "n", " ", "<", "c", "o", "m", "m", "a", "n", "d", ">", "'", " ", "f", "o", "r", " ", "m", "a", "n", "u", "a", "l", " ", "p", "a", "g", "e", "s", "\n", " ", " ", " ", " ", " ", " ", " ", " ", "-", " ", "U", "s", "e", " ", "'", "-", "-", "h", "e", "l", "p", "'", " ", "f", "l", "a", "g", " ", "f", "o", "r", " ", "b", "u", "i", "l", "t", "-", "i", "n", " ", "h", "e", "l", "p", "\n", " ", " ", " ", " ", " ", " ", " ", " ", "-", " ", "C", "h", "e", "c", "k", " ", "o", "n", "l", "i", "n", "e", " ", "d", "o", "c", "u", "m", "e", "n", "t", "a", "t", "i", "o", "n", " ", "f", "o", "r", " ", "d", "e", "t", "a", "i", "l", "e", "d", " ", "u", "s", "a", "g", "e", "\n", " ", " ", " ", " ", " ", " ", " ", " ", "\n", " ", " ", " ", " ", " ", " ", " ", " ", "U+1F6E0", "U+FE0F", " ", "T", "o", " ", "g", "e", "t", " ", "A", "I", "-", "p", "o", "w", "e", "r", "e", "d", " ", "e", "x", "p", "l", "a", "n", "a", "t", "i", "o", "n", "s", ",", " ", "p", "l", "e", "a", "s", "e", ":", "\n", " ", " ", " ", " ", " ", " ", " ", " ", "1", ".", " ", "S", "e", "t", " ", "u", "p", " ", "y", "o", "u", "r", " ", "A", "P", "I", " ", "k", "e", "y", "s", " ", "i", "n", " ", "c", "o", "n", "f", "i", "g", ".", "j", "s", "o", "n", "\n", " ", " ", " ", " ", " ", " ", " ", " ", "2", ".", " ", "I", "n", "s", "t", "a", "l", "l", " ", "r", "e", "q", "u", "i", "r", "e", "d", " ", "d", "e", "p", "e", "n", "d", "e", "n", "c", "i", "e", "s", "\n", " ", " ", " ", " ", " ", " ", " ", " ", "3", ".", " ", "R", "e", "s", "t", "a", "r", "t", " ", "t", "h", "e", " ", "a", "s", "s", "i", "s", "t", "a", "n", "t", "\n", " ", " ", " ", " ", " ", " ", " ", " ">>

\* CommandExplainer._explain_with_ai: one try around an if/elif/else
_explain_with_ai(cc, ll, command, co, lo) ==
  IF cc
    THEN LET c == <<Call("claude", GenericPrompt, command, co)>>
         IN IF co.ok THEN Return(co.text, c)
            ELSE Return(_fallback_explanation(command), c)
  ELSE IF ll
    THEN LET c == <<Call("local", GenericPrompt, command, lo)>>
         IN IF lo.ok THEN Return(lo.text, c)
            ELSE Return(_fallback_explanation(command), c)
  ELSE Return(_fallback_explanation(command), <<>>)

\* CommandExplainer._get_ai_response, called by every _explain_<tool> with
\* that tool's prompt around the command
CommandExplainer_get_ai_response(cc, ll, template, command, co, lo) ==
  IF cc
    THEN LET c == <<Call("claude", template, command, co)>>
         IN IF co.ok THEN Return(co.text, c)
            ELSE Return(_fallback_explanation(<<"A", "I", " ", "e", "r", "r", "o", "r", " ", "o", "c", "c", "u", "r", "r", "e", "d">>), c)
  ELSE IF ll
    THEN LET c == <<Call("local", template, command, lo)>>
         IN IF lo.ok THEN Return(lo.text, c)
            ELSE Return(_fallback_explanation(<<"A", "I", " ", "e", "r", "r", "o", "r", " ", "o", "c", "c", "u", "r", "r", "e", "d">>), c)
  ELSE Return(_fallback_explanation(<<"A", "I", " ", "n", "o", "t", " ", "a", "v", "a", "i", "l", "a", "b", "l", "e">>), <<>>)

\* explain with the tool looked up whatever its letter case
explain_any_case(cc, ll, command, co, lo) ==
  IF strip(command) = <<>> THEN Return(PleaseProvideCommand, <<>>)
  ELSE IF lower(split(strip(command))[1]) \in security_tools
    THEN CommandExplainer_get_ai_response(cc, ll, lower(split(strip(command))[1]),
                                          strip(command), co, lo)
  ELSE _explain_with_ai(cc, ll, strip(command), co, lo)

\* CommandExplainer.explain
explain(cc, ll, command, co, lo) ==
  IF strip(command) = <<>> THEN Return(PleaseProvideCommand, <<>>)
  ELSE LET cmd == strip(command)
           main_command == IF split(cmd) # <<>> THEN split(cmd)[1] ELSE <<>>
       IN IF main_command \in security_tools
            THEN CommandExplainer_get_ai_response(cc, ll, main_command, cmd, co, lo)
            ELSE _explain_with_ai(cc, ll, cmd, co, lo)

(***************************************************************************)
(* translate.py: ShellTranslator                                           *)
(***************************************************************************)
\* ShellTranslator.security_patterns, one definition per key
network_scan ==
  { <<"s", "c", "a", "n", " ", "n", "e", "t", "w", "o", "r", "k">>, <<"f", "i", "n", "d", " ", "o", "p", "e", "n", " ", "p", "o", "r", "t", "s">>, <<"c", "h", "e", "c", "k", " ", "p", "o", "r", "t", "s">>, <<"n", "e", "t", "w", "o", "r", "k", " ", "d", "i", "s", "c", "o", "v", "e", "r", "y">>,
    <<"p", "o", "r", "t", " ", "s", "c", "a", "n">>, <<"h", "o", "s", "t", " ", "d", "i", "s", "c", "o", "v", "e", "r", "y">>, <<"n", "e", "t", "w", "o", "r", "k", " ", "e", "n", "u", "m", "e", "r", "a", "t", "i", "o", "n">> }
vulnerability_scan ==
  { <<"v", "u", "l", "n", "e", "r", "a", "b", "i", "l", "i", "t", "y", " ", "s", "c", "a", "n">>, <<"s", "e", "c", "u", "r", "i", "t", "y", " ", "s", "c", "a", "n">>, <<"f", "i", "n", "d", " ", "v", "u", "l", "n", "e", "r", "a", "b", "i", "l", "i", "t", "i", "e", "s">>,
    <<"s", "e", "c", "u", "r", "i", "t", "y", " ", "a", "s", "s", "e", "s", "s", "m", "e", "n", "t">>, <<"p", "e", "n", "e", "t", "r", "a", "t", "i", "o", "n", " ", "t", "e", "s", "t">>, <<"s", "e", "c", "u", "r", "i", "t", "y", " ", "a", "u", "d", "i", "t">> }
web_scan ==
  { <<"w", "e", "b", " ", "s", "c", "a", "n">>, <<"w", "e", "b", "s", "i", "t", "e", " ", "s", "c", "a", "n">>, <<"w", "e", "b", " ", "a", "p", "p", "l", "i", "c", "a", "t", "i", "o", "n", " ", "t", "e", "s", "t">>, <<"w", "e", "b", " ", "s", "e", "c", "u", "r", "i", "t", "y">>,
    <<"w", "e", "b", " ", "v", "u", "l", "n", "e", "r", "a", "b", "i", "l", "i", "t", "y">>, <<"w", "e", "b", " ", "a", "u", "d", "i", "t">>, <<"w", "e", "b", " ", "p", "e", "n", "e", "t", "r", "a", "t", "i", "o", "n", " ", "t", "e", "s", "t">> }
password_crack ==
  { <<"c", "r", "a", "c", "k", " ", "p", "a", "s", "s", "w", "o", "r", "d">>, <<"b", "r", "e", "a", "k", " ", "p", "a", "s", "s", "w", "o", "r", "d">>, <<"p", "a", "s", "s", "w", "o", "r", "d", " ", "r", "e", "c", "o", "v", "e", "r", "y">>,
    <<"h", "a", "s", "h", " ", "c", "r", "a", "c", "k">>, <<"p", "a", "s", "s", "w", "o", "r", "d", " ", "a", "t", "t", "a", "c", "k">>, <<"b", "r", "u", "t", "e", " ", "f", "o", "r", "c", "e">> }
wireless_attack ==
  { <<"w", "i", "f", "i", " ", "h", "a", "c", "k">>, <<"w", "i", "r", "e", "l", "e", "s", "s", " ", "a", "t", "t", "a", "c", "k">>, <<"w", "i", "f", "i", " ", "c", "r", "a", "c", "k">>, <<"w", "i", "r", "e", "l", "e", "s", "s", " ", "s", "e", "c", "u", "r", "i", "t", "y">>,
    <<"w", "i", "f", "i", " ", "p", "a", "s", "s", "w", "o", "r", "d">>, <<"w", "i", "r", "e", "l", "e", "s", "s", " ", "n", "e", "t", "w", "o", "r", "k">>, <<"w", "i", "f", "i", " ", "a", "u", "d", "i", "t">> }
forensics ==
  { <<"f", "o", "r", "e", "n", "s", "i", "c", "s">>, <<"m", "e", "m", "o", "r", "y", " ", "a", "n", "a", "l", "y", "s", "i", "s">>, <<"d", "i", "s", "k", " ", "a", "n", "a", "l", "y", "s", "i", "s">>, <<"f", "i", "l", "e", " ", "r", "e", "c", "o", "v", "e", "r", "y">>,
    <<"e", "v", "i", "d", "e", "n", "c", "e", " ", "a", "n", "a", "l", "y", "s", "i", "s">>, <<"d", "i", "g", "i", "t", "a", "l", " ", "f", "o", "r", "e", "n", "s", "i", "c", "s">>, <<"i", "n", "c", "i", "d", "e", "n", "t", " ", "r", "e", "s", "p", "o", "n", "s", "e">> }
malware_analysis ==
  { <<"m", "a", "l", "w", "a", "r", "e", " ", "a", "n", "a", "l", "y", "s", "i", "s">>, <<"v", "i", "r", "u", "s", " ", "a", "n", "a", "l", "y", "s", "i", "s">>, <<"r", "e", "v", "e", "r", "s", "e", " ", "e", "n", "g", "i", "n", "e", "e", "r", "i", "n", "g">>,
    <<"b", "i", "n", "a", "r", "y", " ", "a", "n", "a", "l", "y", "s", "i", "s">>, <<"m", "a", "l", "w", "a", "r", "e", " ", "r", "e", "v", "e", "r", "s", "e">>, <<"v", "i", "r", "u", "s", " ", "r", "e", "v", "e", "r", "s", "e">> }
osint ==
  { <<"o", "s", "i", "n", "t">>, <<"o", "p", "e", "n", " ", "s", "o", "u", "r", "c", "e", " ", "i", "n", "t", "e", "l", "l", "i", "g", "e", "n", "c", "e">>, <<"i", "n", "f", "o", "r", "m", "a", "t", "i", "o", "n", " ", "g", "a", "t", "h", "e", "r", "i", "n", "g">>,
    <<"r", "e", "c", "o", "n", "n", "a", "i", "s", "s", "a", "n", "c", "e">>, <<"i", "n", "t", "e", "l", "l", "i", "g", "e", "n", "c", "e", " ", "g", "a", "t", "h", "e", "r", "i", "n", "g">>, <<"t", "h", "r", "e", "a", "t", " ", "i", "n", "t", "e", "l", "l", "i", "g", "e", "n", "c", "e">> }

\* any(pattern in text for pattern in patterns)
any_in(patterns, text) == \E p \in patterns : In(p, text)

\* regex class \w
isword(c) == c \in AlphaNum \cup {"_"}

\* regex \b between s[i] and s[i+1] (i = 0: before the text, i = Len(s): after)
boundary(s, i) ==
  (i >= 1 /\ isword(s[i])) # (i + 1 <= Len(s) /\ isword(s[i + 1]))

\* how many characters from s[p] on are in the class
RECURSIVE run(_, _, _)
run(s, p, class) ==
  IF p <= Len(s) /\ s[p] \in class THEN 1 + run(s, p + 1, class) ELSE 0

\* (?:\d{1,3}\.) at p with n digits from p on: the position after the dot, or
\* 0 when it does not match
octet_dot(s, p, n) ==
  IF n >= 1 /\ n <= 3 /\ p + n <= Len(s) /\ s[p + n] = "." THEN p + n + 1 ELSE 0

\* (?:\d{1,3}\.){k} at p: the position after the last dot, or 0
RECURSIVE octets(_, _, _)
octets(s, p, k) ==
  IF k = 0 \/ p = 0 THEN p
  ELSE octets(s, octet_dot(s, p, run(s, p, Digits)), k - 1)

\* \d{1,3}\b at q with n digits from q on: the last position of the match, or 0
last_octet(s, q, n) ==
  IF q # 0 /\ n >= 1 /\ n <= 3 /\ boundary(s, q + n - 1) THEN q + n - 1 ELSE 0

\* \b then \d{1,3}\b at q: the last position, or 0 (0 too when q = 0)
ip_end(s, p, q) ==
  IF boundary(s, p - 1) THEN last_octet(s, q, IF q = 0 THEN 0 ELSE run(s, q, Digits)) ELSE 0

\* \b(?:\d{1,3}\.){3}\d{1,3}\b at p: the last position of the match, or 0
ip_match(s, p) == ip_end(s, p, octets(s, p, 3))

\* [a-zA-Z0-9](?:[a-zA-Z0-9-]{0,61}[a-zA-Z0-9])?\. at p with n characters of
\* [a-zA-Z0-9-] from p on: the position after the dot, or 0
label_dot(s, p, n) ==
  IF n >= 1 /\ n <= 63 /\ s[p] \in AlphaNum /\ s[p + n - 1] \in AlphaNum
       /\ p + n <= Len(s) /\ s[p + n] = "."
    THEN p + n + 1 ELSE 0

\* [a-zA-Z]{2,}\b at p with n letters from p on: the last position, or 0
tld(s, p, n) == IF n >= 2 /\ boundary(s, p + n - 1) THEN p + n - 1 ELSE 0

\* the first of two match ends that is one (not 0)
either(a, b) == IF a # 0 THEN a ELSE b

\* (?:label\.)+[a-zA-Z]{2,}\b from p on, the labels taken greedily and given
\* back one at a time: the last position of the match, or 0; after(s, q) is
\* the rest of the match once a label has ended before q (q = 0: no label)
RECURSIVE labels_tld(_, _)
RECURSIVE after(_, _)
after(s, q) ==
  IF q = 0 THEN 0 ELSE either(labels_tld(s, q), tld(s, q, run(s, q, Letters)))
labels_tld(s, p) == after(s, label_dot(s, p, run(s, p, AlphaNum \cup {"-"})))

domain_match(s, p) == IF boundary(s, p - 1) THEN labels_tld(s, p) ELSE 0

\* \bw\b at p: the last position of the match, or 0
whole_word(s, p, w) ==
  IF at(s, p - 1, w) /\ boundary(s, p - 1) /\ boundary(s, p + Len(w) - 1)
    THEN p + Len(w) - 1 ELSE 0

\* \b(?:localhost|127\.0\.0\.1)\b at p
hostname_match(s, p) ==
  either(whole_word(s, p, <<"l", "o", "c", "a", "l", "h", "o", "s", "t">>), whole_word(s, p, <<"1", "2", "7", ".", "0", ".", "0", ".", "1">>))

DefaultTarget == <<"1", "9", "2", ".", "1", "6", "8", ".", "1", ".", "1">>

\* the least element of a set of positions, 0 when there is none
leftmost(S) == IF S = {} THEN 0 ELSE CHOOSE p \in S : \A q \in S : p <= q

\* an optional value (Python's None, a failed re.search)
Some(v) == [some |-> TRUE, val |-> v]
None == [some |-> FALSE, val |-> <<>>]

\* the first of a sequence of optional values that is one, or None
first_some(options) ==
  IF \E i \in DOMAIN options : options[i].some
    THEN options[leftmost({i \in DOMAIN options : options[i].some})]
    ELSE None

\* the span of text from p to ends[p], None when p = 0
group_from(text, ends, p) == IF p = 0 THEN None ELSE Some(SubSeq(text, p, ends[p]))

\* re.search(pattern, text): group() of the leftmost match, where ends[p] is
\* the last position of the pattern's match at p, or 0
re_search(text, ends) ==
  group_from(text, ends, leftmost({p \in DOMAIN ends : ends[p] # 0}))

\* the value of an optional value, or the default
value_or(option, default) == IF option.some THEN option.val ELSE default

\* _extract_target with the domain pattern searched before the ip pattern
_extract_target_domain_first(text) ==
  value_or(first_some(<< re_search(text, [p \in 1..Len(text) |-> domain_match(text, p)]),
                         re_search(text, [p \in 1..Len(text) |-> ip_match(text, p)]),
                         re_search(text, [p \in 1..Len(text) |-> hostname_match(text, p)]) >>),
           DefaultTarget)

\* ShellTranslator._extract_target: the ip, domain and hostname patterns are
\* searched in this order
_extract_target(text) ==
  value_or(first_some(<< re_search(text, [p \in 1..Len(text) |-> ip_match(text, p)]),
                         re_search(text, [p \in 1..Len(text) |-> domain_match(text, p)]),
                         re_search(text, [p \in 1..Len(text) |-> hostname_match(text, p)]) >>),
           DefaultTarget)

_generate_network_scan_command(text) ==
  LET command(t, target) ==
        IF In(<<"q", "u", "i", "c", "k">>, t) \/ In(<<"f", "a", "s", "t">>, t)
          THEN <<"n", "m", "a", "p", " ", "-", "s", "S", " ", "-", "p", " ", "8", "0", ",", "4", "4", "3", ",", "2", "2", ",", "2", "1", ",", "2", "3", ",", "2", "5", ",", "5", "3", ",", "1", "1", "0", ",", "1", "4", "3", ",", "9", "9", "3", ",", "9", "9", "5", " ">> \o target
        ELSE IF In(<<"c", "o", "m", "p", "r", "e", "h", "e", "n", "s", "i", "v", "e">>, t) \/ In(<<"f", "u", "l", "l">>, t)
          THEN <<"n", "m", "a", "p", " ", "-", "s", "S", " ", "-", "s", "V", " ", "-", "O", " ", "-", "p", "-", " ">> \o target
        ELSE IF In(<<"s", "t", "e", "a", "l", "t", "h">>, t) \/ In(<<"q", "u", "i", "e", "t">>, t)
          THEN <<"n", "m", "a", "p", " ", "-", "s", "S", " ", "-", "T", "2", " ", "-", "p", " ", "8", "0", ",", "4", "4", "3", ",", "2", "2", " ">> \o target
        ELSE <<"n", "m", "a", "p", " ", "-", "s", "S", " ", "-", "p", " ", "8", "0", ",", "4", "4", "3", ",", "2", "2", ",", "2", "1", ",", "2", "3", ",", "2", "5", ",", "5", "3", " ">> \o target
  IN command(lower(text), _extract_target(text))

_generate_vulnerability_scan_command(text) ==
  LET command(t, target) ==
        IF In(<<"w", "e", "b">>, t) THEN <<"n", "i", "k", "t", "o", " ", "-", "h", " ">> \o target
        ELSE IF In(<<"n", "e", "t", "w", "o", "r", "k">>, t) THEN <<"n", "m", "a", "p", " ", "-", "s", "S", " ", "-", "s", "V", " ", "-", "-", "s", "c", "r", "i", "p", "t", " ", "v", "u", "l", "n", " ">> \o target
        ELSE <<"n", "m", "a", "p", " ", "-", "s", "S", " ", "-", "s", "V", " ", "-", "-", "s", "c", "r", "i", "p", "t", " ", "v", "u", "l", "n", " ">> \o target
  IN command(lower(text), _extract_target(text))

_generate_web_scan_command(text) ==
  LET command(t, target) ==
        IF In(<<"d", "i", "r", "e", "c", "t", "o", "r", "y">>, t) \/ In(<<"d", "i", "r">>, t) THEN <<"d", "i", "r", "b", " ", "h", "t", "t", "p", ":", "/", "/">> \o target
        ELSE IF In(<<"w", "o", "r", "d", "p", "r", "e", "s", "s">>, t) THEN <<"w", "p", "s", "c", "a", "n", " ", "-", "-", "u", "r", "l", " ", "h", "t", "t", "p", ":", "/", "/">> \o target
        ELSE IF In(<<"j", "o", "o", "m", "l", "a">>, t) THEN <<"j", "o", "o", "m", "s", "c", "a", "n", " ", "-", "-", "u", "r", "l", " ", "h", "t", "t", "p", ":", "/", "/">> \o target
        ELSE <<"n", "i", "k", "t", "o", " ", "-", "h", " ">> \o target
  IN command(lower(text), _extract_target(text))

_generate_password_crack_command(text) ==
  LET t == lower(text)
  IN IF In(<<"h", "a", "s", "h">>, t) THEN <<"j", "o", "h", "n", " ", "-", "-", "w", "o", "r", "d", "l", "i", "s", "t", "=", "/", "u", "s", "r", "/", "s", "h", "a", "r", "e", "/", "w", "o", "r", "d", "l", "i", "s", "t", "s", "/", "r", "o", "c", "k", "y", "o", "u", ".", "t", "x", "t", " ", "h", "a", "s", "h", ".", "t", "x", "t">>
     ELSE IF In(<<"z", "i", "p">>, t) THEN <<"j", "o", "h", "n", " ", "-", "-", "w", "o", "r", "d", "l", "i", "s", "t", "=", "/", "u", "s", "r", "/", "s", "h", "a", "r", "e", "/", "w", "o", "r", "d", "l", "i", "s", "t", "s", "/", "r", "o", "c", "k", "y", "o", "u", ".", "t", "x", "t", " ", "a", "r", "c", "h", "i", "v", "e", ".", "z", "i", "p">>
     ELSE <<"j", "o", "h", "n", " ", "-", "-", "w", "o", "r", "d", "l", "i", "s", "t", "=", "/", "u", "s", "r", "/", "s", "h", "a", "r", "e", "/", "w", "o", "r", "d", "l", "i", "s", "t", "s", "/", "r", "o", "c", "k", "y", "o", "u", ".", "t", "x", "t", " ", "p", "a", "s", "s", "w", "o", "r", "d", ".", "t", "x", "t">>

_generate_wireless_attack_command(text) ==
  LET t == lower(text)
  IN IF In(<<"c", "a", "p", "t", "u", "r", "e">>, t) \/ In(<<"h", "a", "n", "d", "s", "h", "a", "k", "e">>, t) THEN <<"a", "i", "r", "o", "d", "u", "m", "p", "-", "n", "g", " ", "-", "w", " ", "c", "a", "p", "t", "u", "r", "e", " ", "w", "l", "a", "n", "0">>
     ELSE IF In(<<"c", "r", "a", "c", "k">>, t) \/ In(<<"a", "t", "t", "a", "c", "k">>, t)
       THEN <<"a", "i", "r", "c", "r", "a", "c", "k", "-", "n", "g", " ", "-", "w", " ", "/", "u", "s", "r", "/", "s", "h", "a", "r", "e", "/", "w", "o", "r", "d", "l", "i", "s", "t", "s", "/", "r", "o", "c", "k", "y", "o", "u", ".", "t", "x", "t", " ", "c", "a", "p", "t", "u", "r", "e", "-", "0", "1", ".", "c", "a", "p">>
     ELSE <<"a", "i", "r", "o", "d", "u", "m", "p", "-", "n", "g", " ", "w", "l", "a", "n", "0">>

_generate_forensics_command(text) ==
  LET t == lower(text)
  IN IF In(<<"m", "e", "m", "o", "r", "y">>, t) THEN <<"v", "o", "l", "a", "t", "i", "l", "i", "t", "y", " ", "-", "f", " ", "m", "e", "m", "o", "r", "y", ".", "d", "m", "p", " ", "i", "m", "a", "g", "e", "i", "n", "f", "o">>
     ELSE IF In(<<"d", "i", "s", "k">>, t) THEN <<"s", "t", "r", "i", "n", "g", "s", " ", "d", "i", "s", "k", ".", "i", "m", "g", " ", "|", " ", "g", "r", "e", "p", " ", "-", "i", " ", "p", "a", "s", "s", "w", "o", "r", "d">>
     ELSE <<"s", "t", "r", "i", "n", "g", "s", " ", "f", "i", "l", "e", ".", "b", "i", "n", " ", "|", " ", "g", "r", "e", "p", " ", "-", "i", " ", "s", "u", "s", "p", "i", "c", "i", "o", "u", "s">>

_generate_malware_analysis_command(text) ==
  LET t == lower(text)
  IN IF In(<<"s", "t", "a", "t", "i", "c">>, t) THEN <<"s", "t", "r", "i", "n", "g", "s", " ", "m", "a", "l", "w", "a", "r", "e", ".", "e", "x", "e">>
     ELSE IF In(<<"d", "y", "n", "a", "m", "i", "c">>, t) THEN <<"s", "t", "r", "a", "c", "e", " ", ".", "/", "m", "a", "l", "w", "a", "r", "e">>
     ELSE <<"f", "i", "l", "e", " ", "m", "a", "l", "w", "a", "r", "e", ".", "e", "x", "e">>

_generate_osint_command(text) ==
  LET command(t, target) ==
        IF In(<<"e", "m", "a", "i", "l">>, t) THEN <<"t", "h", "e", "h", "a", "r", "v", "e", "s", "t", "e", "r", " ", "-", "d", " ">> \o target \o <<" ", "-", "b", " ", "g", "o", "o", "g", "l", "e">>
        ELSE IF In(<<"d", "o", "m", "a", "i", "n">>, t) THEN <<"a", "m", "a", "s", "s", " ", "e", "n", "u", "m", " ", "-", "d", " ">> \o target
        ELSE <<"t", "h", "e", "h", "a", "r", "v", "e", "s", "t", "e", "r", " ", "-", "d", " ">> \o target \o <<" ", "-", "b", " ", "a", "l", "l">>
  IN command(lower(text), _extract_target(text))

\* ShellTranslator._match_security_patterns: the templated command of the
\* first matching category, or None
_match_security_patterns(text) ==
  LET text_lower == lower(text)
  IN IF any_in(network_scan, text_lower) THEN Some(_generate_network_scan_command(text))
     ELSE IF any_in(vulnerability_scan, text_lower)
       THEN Some(_generate_vulnerability_scan_command(text))
     ELSE IF any_in(web_scan, text_lower) THEN Some(_generate_web_scan_command(text))
     ELSE IF any_in(password_crack, text_lower)
       THEN Some(_generate_password_crack_command(text))
     ELSE IF any_in(wireless_attack, text_lower)
       THEN Some(_generate_wireless_attack_command(text))
     ELSE IF any_in(forensics, text_lower) THEN Some(_generate_forensics_command(text))
     ELSE IF any_in(malware_analysis, text_lower)
       THEN Some(_generate_malware_analysis_command(text))
     ELSE IF any_in(osint, text_lower) THEN Some(_generate_osint_command(text))
     ELSE None

\* ShellTranslator._fallback_translation
_fallback_translation(natural_language) ==
  LET command(t, target) ==
        IF In(<<"p", "o", "r", "t">>, t) /\ In(<<"s", "c", "a", "n">>, t)
          THEN <<"n", "m", "a", "p", " ", "-", "s", "S", " ", "-", "p", " ", "8", "0", ",", "4", "4", "3", ",", "2", "2", ",", "2", "1", ",", "2", "3", ",", "2", "5", ",", "5", "3", " ">> \o target
        ELSE IF In(<<"w", "e", "b">>, t) /\ In(<<"s", "c", "a", "n">>, t) THEN <<"n", "i", "k", "t", "o", " ", "-", "h", " ">> \o target
        ELSE IF In(<<"d", "i", "r", "e", "c", "t", "o", "r", "y">>, t) \/ In(<<"d", "i", "r">>, t) THEN <<"d", "i", "r", "b", " ", "h", "t", "t", "p", ":", "/", "/">> \o target
        ELSE IF In(<<"p", "a", "s", "s", "w", "o", "r", "d">>, t) /\ In(<<"c", "r", "a", "c", "k">>, t)
          THEN <<"j", "o", "h", "n", " ", "-", "-", "w", "o", "r", "d", "l", "i", "s", "t", "=", "/", "u", "s", "r", "/", "s", "h", "a", "r", "e", "/", "w", "o", "r", "d", "l", "i", "s", "t", "s", "/", "r", "o", "c", "k", "y", "o", "u", ".", "t", "x", "t", " ", "h", "a", "s", "h", ".", "t", "x", "t">>
        ELSE IF In(<<"w", "i", "f", "i">>, t) \/ In(<<"w", "i", "r", "e", "l", "e", "s", "s">>, t) THEN <<"a", "i", "r", "o", "d", "u", "m", "p", "-", "n", "g", " ", "w", "l", "a", "n", "0">>
        ELSE <<"#", " ", "N", "o", " ", "s", "p", "e", "c", "i", "f", "i", "c", " ", "c", "o", "m", "m", "a", "n", "d", " ", "f", "o", "u", "n", "d", " ", "f", "o", "r", ":", " ">> \o natural_language
               \o <<"\n", "#", " ", "P", "l", "e", "a", "s", "e", " ", "u", "s", "e", " ", "A", "I", " ", "a", "s", "s", "i", "s", "t", "a", "n", "c", "e", " ", "f", "o", "r", " ", "b", "e", "t", "t", "e", "r", " ", "t", "r", "a", "n", "s", "l", "a", "t", "i", "o", "n">>
  IN command(lower(natural_language), _extract_target(natural_language))

TranslatePrompt == <<"_", "t", "r", "a", "n", "s", "l", "a", "t", "e", "_", "w", "i", "t", "h", "_", "a", "i">>

\* ShellTranslator._translate_with_ai: one try around an if/elif/else
_translate_with_ai(cc, ll, natural_language, co, lo) ==
  IF cc
    THEN IF co.ok
           THEN Return(strip(co.text), <<Call("claude", TranslatePrompt, natural_language, co)>>)
           ELSE Return(_fallback_translation(natural_language),
                       <<Call("claude", TranslatePrompt, natural_language, co)>>)
  ELSE IF ll
    THEN IF lo.ok
           THEN Return(strip(lo.text), <<Call("local", TranslatePrompt, natural_language, lo)>>)
           ELSE Return(_fallback_translation(natural_language),
                       <<Call("local", TranslatePrompt, natural_language, lo)>>)
  ELSE Return(_fallback_translation(natural_language), <<>>)

PleaseProvideDescription == <<"U+274C", " ", "P", "l", "e", "a", "s", "e", " ", "p", "r", "o", "v", "i", "d", "e", " ", "a", " ", "d", "e", "s", "c", "r", "i", "p", "t", "i", "o", "n", " ", "o", "f", " ", "w", "h", "a", "t", " ", "y", "o", "u", " ", "w", "a", "n", "t", " ", "t", "o", " ", "d", "o", ".">>

\* translate with the pattern matching as the fallback: the AI is asked
\* whenever a backend is configured
translate_ai_first(cc, ll, natural_language, pattern_match, co, lo) ==
  IF cc \/ ll THEN _translate_with_ai(cc, ll, natural_language, co, lo)
  ELSE IF pattern_match.some THEN Return(pattern_match.val, <<>>)
  ELSE Return(_fallback_translation(natural_language), <<>>)

\* ShellTranslator.translate after its empty check, pattern_match being
\* self._match_security_patterns(natural_language)
translate_matched(cc, ll, natural_language, pattern_match, co, lo) ==
  IF pattern_match.some THEN Return(pattern_match.val, <<>>)
  ELSE _translate_with_ai(cc, ll, natural_language, co, lo)

\* ShellTranslator.translate
translate(cc, ll, natural_language, co, lo) ==
  IF strip(natural_language) = <<>> THEN Return(PleaseProvideDescription, <<>>)
  ELSE translate_matched(cc, ll, strip(natural_language),
                         _match_security_patterns(strip(natural_language)), co, lo)

\* one piece of a dangerous pattern: a literal text, or \s+ (least 1) or
\* \s* (least 0)
Lit(text) == [ws |-> FALSE, text |-> text, least |-> 0]
Ws(least) == [ws |-> TRUE, text |-> <<>>, least |-> least]

\* validate_command's dangerous_patterns, in their order: the pattern as it
\* is written, and its pieces
dangerous_patterns ==
  << [source |-> <<"r", "m", "\\", "s", "+", "-", "r", "f", "\\", "s", "+", "/">>,
      pieces |-> <<Lit(<<"r", "m">>), Ws(1), Lit(<<"-", "r", "f">>), Ws(1), Lit(<<"/">>)>>],
     [source |-> <<"d", "d", "\\", "s", "+", "i", "f", "=", "/", "d", "e", "v", "/", "z", "e", "r", "o">>,
      pieces |-> <<Lit(<<"d", "d">>), Ws(1), Lit(<<"i", "f", "=", "/", "d", "e", "v", "/", "z", "e", "r", "o">>)>>],
     [source |-> <<":", "\\", "(", "\\", ")", "\\", "s", "*", "\\", "{", "\\", "s", "*", ":", "\\", "|", ":", "\\", "s", "*", "&", "\\", "s", "*", "\\", "}">>,
      pieces |-> <<Lit(<<":", "(", ")">>), Ws(0), Lit(<<"{">>), Ws(0), Lit(<<":", "|", ":">>), Ws(0), Lit(<<"&">>),
                   Ws(0), Lit(<<"}">>)>>],
     [source |-> <<"c", "h", "m", "o", "d", "\\", "s", "+", "7", "7", "7", "\\", "s", "+", "/">>,
      pieces |-> <<Lit(<<"c", "h", "m", "o", "d">>), Ws(1), Lit(<<"7", "7", "7">>), Ws(1), Lit(<<"/">>)>>],
     [source |-> <<"c", "h", "o", "w", "n", "\\", "s", "+", "r", "o", "o", "t", "\\", "s", "+", "/">>,
      pieces |-> <<Lit(<<"c", "h", "o", "w", "n">>), Ws(1), Lit(<<"r", "o", "o", "t">>), Ws(1), Lit(<<"/">>)>>],
     [source |-> <<"m", "k", "f", "s", "\\", "s", "+">>, pieces |-> <<Lit(<<"m", "k", "f", "s">>), Ws(1)>>],
     [source |-> <<"f", "d", "i", "s", "k", "\\", "s", "+">>, pieces |-> <<Lit(<<"f", "d", "i", "s", "k">>), Ws(1)>>],
     [source |-> <<"f", "o", "r", "m", "a", "t", "\\", "s", "+">>, pieces |-> <<Lit(<<"f", "o", "r", "m", "a", "t">>), Ws(1)>>],
     [source |-> <<"w", "i", "p", "e", "\\", "s", "+">>, pieces |-> <<Lit(<<"w", "i", "p", "e">>), Ws(1)>>],
     [source |-> <<"s", "h", "r", "e", "d", "\\", "s", "+">>, pieces |-> <<Lit(<<"s", "h", "r", "e", "d">>), Ws(1)>>] >>

\* whether the pieces match s right after its first p characters; s is
\* lowered, as the patterns are, for re.IGNORECASE
RECURSIVE pieces_at(_, _, _)
pieces_at(s, p, pieces) ==
  IF pieces = <<>> THEN TRUE
  ELSE IF Head(pieces).ws
    THEN \E k \in Head(pieces).least..run(s, p + 1, Whitespace) :
           pieces_at(s, p + k, Tail(pieces))
  ELSE at(s, p, Head(pieces).text)
         /\ pieces_at(s, p + Len(Head(pieces).text), Tail(pieces))

\* re.search(pattern, command, re.IGNORECASE) is not None
dangerous(command, pattern) ==
  LET s == lower(command)
  IN \E p \in 0..Len(command) : pieces_at(s, p, pattern.pieces)

\* the loop of validate_command over the patterns: a warning for each one
\* that matches
RECURSIVE dangerous_warnings(_, _)
dangerous_warnings(command, patterns) ==
  IF patterns = <<>> THEN <<>>
  ELSE (IF dangerous(command, Head(patterns))
          THEN << <<"D", "a", "n", "g", "e", "r", "o", "u", "s", " ", "c", "o", "m", "m", "a", "n", "d", " ", "p", "a", "t", "t", "e", "r", "n", " ", "d", "e", "t", "e", "c", "t", "e", "d", ":", " ">> \o Head(patterns).source >>
          ELSE <<>>)
       \o dangerous_warnings(command, Tail(patterns))

\* \d+\.\d+\.\d+\.\d+ at position p: k more dots to come
RECURSIVE dotted_at(_, _, _)
dotted_at(s, p, k) ==
  IF run(s, p, Digits) = 0 THEN FALSE
  ELSE IF k = 0 THEN TRUE
  ELSE p + run(s, p, Digits) <= Len(s) /\ s[p + run(s, p, Digits)] = "."
         /\ dotted_at(s, p + run(s, p, Digits) + 1, k - 1)

\* the authorization warnings of validate_command
authorization_warnings(command) ==
  (IF In(<<"n", "m", "a", "p">>, command) /\ ~\E p \in 1..Len(command) : dotted_at(command, p, 3)
     THEN << <<"N", "e", "t", "w", "o", "r", "k", " ", "s", "c", "a", "n", " ", "w", "i", "t", "h", "o", "u", "t", " ", "s", "p", "e", "c", "i", "f", "i", "c", " ", "t", "a", "r", "g", "e", "t", " ", "-", " ", "e", "n", "s", "u", "r", "e", " ", "y", "o", "u", " ", "h", "a", "v", "e", " ", "a", "u", "t", "h", "o", "r", "i", "z", "a", "t", "i", "o", "n">> >>
     ELSE <<>>)
  \o (IF any_in({ <<"h", "y", "d", "r", "a">>, <<"j", "o", "h", "n">>, <<"h", "a", "s", "h", "c", "a", "t">> }, lower(command))
        THEN << <<"P", "a", "s", "s", "w", "o", "r", "d", " ", "a", "t", "t", "a", "c", "k", " ", "t", "o", "o", "l", " ", "d", "e", "t", "e", "c", "t", "e", "d", " ", "-", " ", "e", "n", "s", "u", "r", "e", " ", "y", "o", "u", " ", "h", "a", "v", "e", " ", "a", "u", "t", "h", "o", "r", "i", "z", "a", "t", "i", "o", "n">> >>
        ELSE <<>>)
  \o (IF any_in({ <<"s", "q", "l", "m", "a", "p">>, <<"n", "i", "k", "t", "o">>, <<"d", "i", "r", "b">> }, lower(command))
        THEN << <<"W", "e", "b", " ", "s", "e", "c", "u", "r", "i", "t", "y", " ", "t", "o", "o", "l", " ", "d", "e", "t", "e", "c", "t", "e", "d", " ", "-", " ", "e", "n", "s", "u", "r", "e", " ", "y", "o", "u", " ", "h", "a", "v", "e", " ", "a", "u", "t", "h", "o", "r", "i", "z", "a", "t", "i", "o", "n">> >>
        ELSE <<>>)

\* the result dict of validate_command
validation_result(dangers, warnings) ==
  [safe |-> dangers = <<>>,
   warnings |-> warnings,
   recommendations |->
     IF warnings = <<>> THEN << <<"C", "o", "m", "m", "a", "n", "d", " ", "a", "p", "p", "e", "a", "r", "s", " ", "s", "a", "f", "e", " ", "f", "o", "r", " ", "a", "u", "t", "h", "o", "r", "i", "z", "e", "d", " ", "t", "e", "s", "t", "i", "n", "g">> >>
     ELSE << <<"R", "e", "v", "i", "e", "w", " ", "w", "a", "r", "n", "i", "n", "g", "s", " ", "b", "e", "f", "o", "r", "e", " ", "e", "x", "e", "c", "u", "t", "i", "n", "g">>, <<"E", "n", "s", "u", "r", "e", " ", "y", "o", "u", " ", "h", "a", "v", "e", " ", "p", "r", "o", "p", "e", "r", " ", "a", "u", "t", "h", "o", "r", "i", "z", "a", "t", "i", "o", "n">>,
             <<"T", "e", "s", "t", " ", "i", "n", " ", "i", "s", "o", "l", "a", "t", "e", "d", " ", "e", "n", "v", "i", "r", "o", "n", "m", "e", "n", "t", " ", "f", "i", "r", "s", "t">> >>]

\* validate_command that stops at the first dangerous pattern that matches
validate_command_first_only(command) ==
  LET all == dangerous_warnings(command, dangerous_patterns)
      first == IF all = <<>> THEN <<>> ELSE <<Head(all)>>
  IN validation_result(first, first \o authorization_warnings(command))

\* ShellTranslator.validate_command
validate_command(command) ==
  validation_result(dangerous_warnings(command, dangerous_patterns),
                    dangerous_warnings(command, dangerous_patterns)
                      \o authorization_warnings(command))

(***************************************************************************)
(* kenki_assist.py: KenkiAssistant                                         *)
(***************************************************************************)
\* a configuration file: whether it exists, whether open(...).read() can
\* decode its bytes as text, whether that text is JSON, and the object it
\* holds: the API key, and the "local_llm" section (absent, or its "enabled")
ConfigFile(exists, decodable, valid_json, anthropic_api_key, section) ==
  [exists |-> exists, decodable |-> decodable, valid_json |-> valid_json,
   anthropic_api_key |-> anthropic_api_key, local_llm |-> section]

\* KenkiAssistant._get_default_config: empty API key, local LLM disabled
_get_default_config == [anthropic_api_key |-> <<>>, local_llm |-> "disabled"]

\* KenkiAssistant._load_config: the configuration, or exc when the exception
\* is none that it catches (json.load's read() raising UnicodeDecodeError)
_load_config(config_file) ==
  IF ~config_file.exists THEN [exc |-> FALSE, config |-> _get_default_config]
  ELSE IF ~config_file.decodable THEN [exc |-> TRUE, config |-> _get_default_config]
  ELSE IF ~config_file.valid_json THEN [exc |-> FALSE, config |-> _get_default_config]
  ELSE [exc |-> FALSE,
        config |-> [anthropic_api_key |-> config_file.anthropic_api_key,
                    local_llm |-> config_file.local_llm]]

\* what the installation decides: whether the two SDKs import, whether their
\* constructors return, whether the model file exists
Environment(claude_available, llama_available, anthropic_ok, model_exists, llama_ok) ==
  [CLAUDE_AVAILABLE |-> claude_available, LLAMA_AVAILABLE |-> llama_available,
   anthropic_ok |-> anthropic_ok, model_exists |-> model_exists, llama_ok |-> llama_ok]

\* KenkiAssistant._setup_ai_clients: which clients are set; exc is the
\* KeyError of self.config["local_llm"], which is outside the try
_setup_ai_clients(config, env) ==
  [claude_client |-> env.CLAUDE_AVAILABLE /\ config.anthropic_api_key # <<>>
                       /\ env.anthropic_ok,
   local_llm |-> env.LLAMA_AVAILABLE /\ config.local_llm = "enabled"
                   /\ env.model_exists /\ env.llama_ok,
   exc |-> env.LLAMA_AVAILABLE /\ config.local_llm = "absent"]

\* KenkiAssistant.__init__
KenkiAssistant_init(config_file, env) ==
  IF _load_config(config_file).exc
    THEN [claude_client |-> FALSE, local_llm |-> FALSE, exc |-> TRUE]
    ELSE _setup_ai_clients(_load_config(config_file).config, env)

NoModelsText == <<"U+274C", " ", "N", "o", " ", "A", "I", " ", "m", "o", "d", "e", "l", "s", " ", "a", "v", "a", "i", "l", "a", "b", "l", "e", ".", " ", "P", "l", "e", "a", "s", "e", " ", "c", "h", "e", "c", "k", " ", "y", "o", "u", "r", " ", "c", "o", "n", "f", "i", "g", "u", "r", "a", "t", "i", "o", "n", ".">>

\* _get_ai_response with the two backends in one if/elif: the local LLM is
\* not asked after Claude raised
get_ai_response_elif(cc, ll, template, subject, co, lo) ==
  IF cc
    THEN IF co.ok THEN Return(co.text, <<Call("claude", template, subject, co)>>)
         ELSE Return(NoModelsText, <<Call("claude", template, subject, co)>>)
  ELSE IF ll
    THEN IF lo.ok THEN Return(lo.text, <<Call("local", template, subject, lo)>>)
         ELSE Return(NoModelsText, <<Call("local", template, subject, lo)>>)
  ELSE Return(NoModelsText, <<>>)

\* KenkiAssistant._get_ai_response: Claude first, then the local LLM, each
\* in its own try; cc, ll: whether self.claude_client, self.local_llm are set;
\* co, lo: what a call to each would do
KenkiAssistant_get_ai_response(cc, ll, template, subject, co, lo) ==
  LET c1 == IF cc THEN <<Call("claude", template, subject, co)>> ELSE <<>>
      c2 == IF ll THEN Append(c1, Call("local", template, subject, lo)) ELSE c1
  IN IF cc /\ co.ok THEN Return(co.text, c1)
     ELSE IF ll /\ lo.ok THEN Return(lo.text, c2)
     ELSE Return(NoModelsText, c2)

\* KenkiAssistant._format_response
border == [i \in 1..60 |-> "="]
_format_response(title, content, original_input) ==
  <<"\n">> \o border \o <<"\n", "U+1F9E0", " ", "K", "E", "N", "K", "I", " ", "O", "S", " ", "A", "I", " ", "A", "s", "s", "i", "s", "t", "a", "n", "t", " ", "-", " ">> \o title \o <<"\n">> \o border
    \o <<"\n", "\n", "U+1F4DD", " ", "I", "n", "p", "u", "t", ":", " ">> \o original_input \o <<"\n", "\n", "U+1F4A1", " ", "R", "e", "s", "p", "o", "n", "s", "e", ":", "\n">> \o content
    \o <<"\n", "\n">> \o border \o <<"\n">>

\* KenkiAssistant.explain_command
explain_command(cc, ll, command, co, lo) ==
  IF strip(command) = <<>> THEN Return(PleaseProvideCommand, <<>>)
  ELSE LET try(r) ==
             IF r.exc THEN Return(<<"U+274C", " ", "E", "r", "r", "o", "r", " ", "e", "x", "p", "l", "a", "i", "n", "i", "n", "g", " ", "c", "o", "m", "m", "a", "n", "d", ":", " ">> \o ExcText, r.calls)
             ELSE [Return(_format_response(<<"C", "o", "m", "m", "a", "n", "d", " ", "E", "x", "p", "l", "a", "n", "a", "t", "i", "o", "n">>, r.val, command), r.calls)
                     EXCEPT !.inner = r.val]
       IN try(explain(cc, ll, command, co, lo))

\* KenkiAssistant.translate_to_shell
translate_to_shell(cc, ll, natural_language, co, lo) ==
  IF strip(natural_language) = <<>> THEN Return(PleaseProvideDescription, <<>>)
  ELSE LET try(r) ==
             IF r.exc THEN Return(<<"U+274C", " ", "E", "r", "r", "o", "r", " ", "t", "r", "a", "n", "s", "l", "a", "t", "i", "n", "g", " ", "t", "o", " ", "s", "h", "e", "l", "l", ":", " ">> \o ExcText, r.calls)
             ELSE [Return(_format_response(<<"S", "h", "e", "l", "l", " ", "T", "r", "a", "n", "s", "l", "a", "t", "i", "o", "n">>, r.val, natural_language),
                          r.calls)
                     EXCEPT !.inner = r.val]
       IN try(translate(cc, ll, natural_language, co, lo))

GuidePrompt == <<"a", "n", "a", "l", "y", "z", "e", "_", "s", "e", "c", "u", "r", "i", "t", "y", "_", "t", "o", "o", "l">>

\* analyze_security_tool with the Claude call made outside any try: its
\* failure reaches the caller
analyze_security_tool_unguarded(cc, ll, tool_name, co, lo) ==
  IF cc /\ ~co.ok THEN Raise(<<Call("claude", GuidePrompt, tool_name, co)>>)
  ELSE [Return(_format_response(<<"S", "e", "c", "u", "r", "i", "t", "y", " ", "T", "o", "o", "l", " ", "G", "u", "i", "d", "e">>,
                                KenkiAssistant_get_ai_response(cc, ll, GuidePrompt, tool_name,
                                                               co, lo).val,
                                tool_name),
               KenkiAssistant_get_ai_response(cc, ll, GuidePrompt, tool_name, co, lo).calls)
          EXCEPT !.inner = KenkiAssistant_get_ai_response(cc, ll, GuidePrompt, tool_name,
                                                          co, lo).val]

\* KenkiAssistant.analyze_security_tool (context is only ever its default "")
analyze_security_tool(cc, ll, tool_name, co, lo) ==
  LET try(r) ==
        IF r.exc THEN Return(<<"U+274C", " ", "E", "r", "r", "o", "r", " ", "a", "n", "a", "l", "y", "z", "i", "n", "g", " ", "s", "e", "c", "u", "r", "i", "t", "y", " ", "t", "o", "o", "l", ":", " ">> \o ExcText, r.calls)
        ELSE [Return(_format_response(<<"S", "e", "c", "u", "r", "i", "t", "y", " ", "T", "o", "o", "l", " ", "G", "u", "i", "d", "e">>, r.val, tool_name), r.calls)
                EXCEPT !.inner = r.val]
  IN try(KenkiAssistant_get_ai_response(cc, ll, GuidePrompt, tool_name, co, lo))

LogPrompt == <<"a", "n", "a", "l", "y", "z", "e", "_", "l", "o", "g", "_", "f", "i", "l", "e">>
LogLimit == 5000

\* what the file system holds at a path: nothing, a file open() or read()
\* fails on, or a readable file with its content
NoFile == [exists |-> FALSE, readable |-> FALSE, content |-> <<>>]
Unreadable == [exists |-> TRUE, readable |-> FALSE, content |-> <<>>]
File(content) == [exists |-> TRUE, readable |-> TRUE, content |-> content]

\* s[:n]
slice_to(s, n) == SubSeq(s, 1, IF Len(s) < n THEN Len(s) ELSE n)

\* the with open(...) block reading the whole file
read_log_whole(file) == IF file.readable THEN Return(file.content, <<>>) ELSE Raise(<<>>)

\* the with open(...) block of analyze_log_file: raises when the file cannot
\* be opened or read
read_log(file) == IF file.readable THEN Return(slice_to(file.content, LogLimit), <<>>) ELSE Raise(<<>>)

\* KenkiAssistant.analyze_log_file
analyze_log_file(cc, ll, log_path, file, co, lo) ==
  IF ~file.exists THEN Return(<<"U+274C", " ", "L", "o", "g", " ", "f", "i", "l", "e", " ", "n", "o", "t", " ", "f", "o", "u", "n", "d", ":", " ">> \o log_path, <<>>)
  ELSE LET try(log_content, r) ==
             IF log_content.exc THEN Return(<<"U+274C", " ", "E", "r", "r", "o", "r", " ", "a", "n", "a", "l", "y", "z", "i", "n", "g", " ", "l", "o", "g", " ", "f", "i", "l", "e", ":", " ">> \o ExcText, <<>>)
             ELSE IF r.exc THEN Return(<<"U+274C", " ", "E", "r", "r", "o", "r", " ", "a", "n", "a", "l", "y", "z", "i", "n", "g", " ", "l", "o", "g", " ", "f", "i", "l", "e", ":", " ">> \o ExcText, r.calls)
             ELSE [Return(_format_response(<<"L", "o", "g", " ", "A", "n", "a", "l", "y", "s", "i", "s">>, r.val, log_path), r.calls)
                     EXCEPT !.inner = r.val]
       IN try(read_log(file),
              KenkiAssistant_get_ai_response(cc, ll, LogPrompt, read_log(file).val, co, lo))

\* KenkiAssistant._show_help prints this
help_text ==
  <<"\n", "A", "v", "a", "i", "l", "a", "b", "l", "e", " ", "C", "o", "m", "m", "a", "n", "d", "s", ":", "\n", "-", " ", "e", "x", "p", "l", "a", "i", "n", " ", "<", "c", "o", "m", "m", "a", "n", "d", ">", " ", " ", " ", " ", " ", ":", " ", "E", "x", "p", "l", "a", "i", "n", " ", "a", " ", "L", "i", "n", "u", "x", "/", "s", "e", "c", "u", "r", "i", "t", "y", " ", "c", "o", "m", "m", "a", "n", "d", "\n", "-", " ", "t", "r", "a", "n", "s", "l", "a", "t", "e", " ", "<", "r", "e", "q", "u", "e", "s", "t", ">", " ", " ", " ", ":", " ", "C", "o", "n", "v", "e", "r", "t", " ", "n", "a", "t", "u", "r", "a", "l", " ", "l", "a", "n", "g", "u", "a", "g", "e", " ", "t", "o", " ", "s", "h", "e", "l", "l", " ", "c", "o", "m", "m", "a", "n", "d", "s", "\n", "-", " ", "a", "n", "a", "l", "y", "z", "e", " ", "<", "t", "o", "o", "l", ">", " ", " ", " ", " ", " ", " ", " ", ":", " ", "G", "e", "t", " ", "g", "u", "i", "d", "a", "n", "c", "e", " ", "o", "n", " ", "s", "e", "c", "u", "r", "i", "t", "y", " ", "t", "o", "o", "l", "s", "\n", "-", " ", "l", "o", "g", " ", "<", "f", "i", "l", "e", ">", " ", " ", " ", " ", " ", " ", " ", " ", " ", " ", ":", " ", "A", "n", "a", "l", "y", "z", "e", " ", "a", " ", "l", "o", "g", " ", "f", "i", "l", "e", "\n", "-", " ", "h", "e", "l", "p", " ", " ", " ", " ", " ", " ", " ", " ", " ", " ", " ", " ", " ", " ", " ", " ", ":", " ", "S", "h", "o", "w", " ", "t", "h", "i", "s", " ", "h", "e", "l", "p", "\n", "-", " ", "q", "u", "i", "t", " ", " ", " ", " ", " ", " ", " ", " ", " ", " ", " ", " ", " ", " ", " ", " ", ":", " ", "E", "x", "i", "t", " ", "i", "n", "t", "e", "r", "a", "c", "t", "i", "v", "e", " ", "m", "o", "d", "e", "\n", "\n", "E", "x", "a", "m", "p", "l", "e", "s", ":", "\n", "-", " ", "e", "x", "p", "l", "a", "i", "n", " ", "\"", "n", "m", "a", "p", " ", "-", "s", "S", " ", "-", "p", " ", "8", "0", " ", "t", "a", "r", "g", "e", "t", ".", "c", "o", "m", "\"", "\n", "-", " ", "t", "r", "a", "n", "s", "l", "a", "t", "e", " ", "\"", "f", "i", "n", "d", " ", "a", "l", "l", " ", "o", "p", "e", "n", " ", "p", "o", "r", "t", "s", " ", "o", "n", " ", "t", "h", "i", "s", " ", "n", "e", "t", "w", "o", "r", "k", "\"", "\n", "-", " ", "a", "n", "a", "l", "y", "z", "e", " ", "\"", "m", "e", "t", "a", "s", "p", "l", "o", "i", "t", "\"", "\n", "-", " ", "l", "o", "g", " ", "\"", "/", "v", "a", "r", "/", "l", "o", "g", "/", "a", "u", "t", "h", ".", "l", "o", "g", "\"", "\n", " ", " ", " ", " ", " ", " ", " ", " ">>

\* what interactive_mode prints when it ends
Goodbye == <<"U+1F44B", " ", "G", "o", "o", "d", "b", "y", "e", "!">>

\* str.startswith(tuple)
startswith_any(s, prefixes) == \E p \in prefixes : startswith(s, p)

ExplainPrefixes == { <<"e", "x", "p", "l", "a", "i", "n">>, <<"w", "h", "a", "t">>, <<"h", "o", "w">>, <<"w", "h", "y">> }
TranslateWords == { <<"f", "i", "n", "d">>, <<"s", "c", "a", "n">>, <<"c", "h", "e", "c", "k">>, <<"a", "n", "a", "l", "y", "z", "e">>, <<"g", "e", "t">> }

\* one handled request: who took it (via), the input, the KenkiAssistant
\* operation that handled it (by) with its argument (arg), what that returned
\* and what was printed; for a voice command also its type, and whether
\* self.is_listening was left as it was (listening); for analyze_log_file
\* also what the file system held at the path (file)
Handled(via, input, by, arg, r) ==
  [via |-> via, input |-> input, by |-> by, arg |-> arg, val |-> r.val, exc |-> r.exc,
   calls |-> r.calls, inner |-> r.inner, printed |-> r.val,
   type |-> "none", listening |-> TRUE, file |-> NoFile]
Unhandled(via, input, by, printed) ==
  [via |-> via, input |-> input, by |-> by, arg |-> <<>>, val |-> <<>>, exc |-> FALSE,
   calls |-> <<>>, inner |-> <<>>, printed |-> printed,
   type |-> "none", listening |-> TRUE, file |-> NoFile]

\* the "auto-detect command type" chain of interactive_mode
interactive_dispatch(cc, ll, user_input, co, lo) ==
  LET chain(explained, translated) ==
        IF startswith_any(user_input, ExplainPrefixes)
          THEN Handled("interactive_mode", user_input, "explain_command", user_input,
                       explained)
        ELSE IF any_in(TranslateWords, lower(user_input))
          THEN Handled("interactive_mode", user_input, "translate_to_shell", user_input,
                       translated)
        ELSE Handled("interactive_mode", user_input, "explain_command", user_input,
                     explained)
  IN chain(explain_command(cc, ll, user_input, co, lo),
           translate_to_shell(cc, ll, user_input, co, lo))

\* the quit test of interactive_mode without .lower()
is_quit_exact(user_input) == user_input \in { <<"q", "u", "i", "t">>, <<"e", "x", "i", "t">>, <<"q">> }

\* user_input.lower() in ['quit', 'exit', 'q']
is_quit(user_input) == lower(user_input) \in { <<"q", "u", "i", "t">>, <<"e", "x", "i", "t">>, <<"q">> }

\* one pass of the while loop of interactive_mode on the line input() read;
\* loop: whether the loop goes on
interactive_mode(cc, ll, line, co, lo) ==
  LET user_input == strip(line)
  IN IF user_input = <<>>
       THEN [loop |-> TRUE, did |-> Unhandled("interactive_mode", line, "continue", <<>>)]
     ELSE IF is_quit(user_input)
       THEN [loop |-> FALSE, did |-> Unhandled("interactive_mode", line, "break", Goodbye)]
     ELSE IF lower(user_input) = <<"h", "e", "l", "p">>
       THEN [loop |-> TRUE, did |-> Unhandled("interactive_mode", line, "_show_help", help_text)]
     ELSE LET print(d) ==
                [d EXCEPT !.input = line,
                          !.printed = IF d.exc THEN <<"U+274C", " ", "E", "r", "r", "o", "r", ":", " ">> \o ExcText ELSE d.val]
          IN [loop |-> TRUE, did |-> print(interactive_dispatch(cc, ll, user_input, co, lo))]

\* argparse's result: a flag, and three optional strings (None is <<>>)
Args(interactive, analyze, log, query) ==
  [interactive |-> interactive, analyze |-> analyze, log |-> log, query |-> query]

\* the "auto-detect query type" chain of main
main_dispatch(cc, ll, q, co, lo) ==
  LET query == lower(q)
      chain(explained, translated) ==
        IF startswith_any(query, ExplainPrefixes)
          THEN Handled("main", q, "explain_command", q, explained)
        ELSE IF any_in(TranslateWords, query)
          THEN Handled("main", q, "translate_to_shell", q, translated)
        ELSE Handled("main", q, "explain_command", q, explained)
  IN chain(explain_command(cc, ll, q, co, lo), translate_to_shell(cc, ll, q, co, lo))

\* main after the assistant is constructed: "handle different modes"
main(cc, ll, args, file, co, lo) ==
  IF args.interactive THEN Unhandled("main", <<>>, "interactive_mode", <<>>)
  ELSE IF args.analyze # <<>>
    THEN Handled("main", args.analyze, "analyze_security_tool", args.analyze,
                 analyze_security_tool(cc, ll, args.analyze, co, lo))
  ELSE IF args.log # <<>>
    THEN [Handled("main", args.log, "analyze_log_file", args.log,
                  analyze_log_file(cc, ll, args.log, file, co, lo))
            EXCEPT !.file = file]
  ELSE IF args.query # <<>> THEN main_dispatch(cc, ll, args.query, co, lo)
  ELSE Unhandled("main", <<>>, "print_help", <<>>)

(***************************************************************************)
(* voice.py: KenkiVoiceInterface                                           *)
(***************************************************************************)
\* KenkiVoiceInterface.voice_commands, in the order of the dict
voice_commands ==
  << [type |-> "explain", keywords |-> { <<"e", "x", "p", "l", "a", "i", "n">>, <<"w", "h", "a", "t", " ", "i", "s">>, <<"h", "o", "w", " ", "d", "o", "e", "s">>, <<"t", "e", "l", "l", " ", "m", "e", " ", "a", "b", "o", "u", "t">> }],
     [type |-> "translate", keywords |-> { <<"t", "r", "a", "n", "s", "l", "a", "t", "e">>, <<"c", "o", "n", "v", "e", "r", "t">>, <<"f", "i", "n", "d", " ", "c", "o", "m", "m", "a", "n", "d">>, <<"g", "e", "t", " ", "c", "o", "m", "m", "a", "n", "d">> }],
     [type |-> "analyze", keywords |-> { <<"a", "n", "a", "l", "y", "z", "e">>, <<"s", "c", "a", "n">>, <<"c", "h", "e", "c", "k">>, <<"t", "e", "s", "t">> }],
     [type |-> "help", keywords |-> { <<"h", "e", "l", "p">>, <<"w", "h", "a", "t", " ", "c", "a", "n", " ", "y", "o", "u", " ", "d", "o">>, <<"c", "o", "m", "m", "a", "n", "d", "s">>, <<"o", "p", "t", "i", "o", "n", "s">> }],
     [type |-> "stop", keywords |-> { <<"s", "t", "o", "p">>, <<"q", "u", "i", "t">>, <<"e", "x", "i", "t">>, <<"g", "o", "o", "d", "b", "y", "e">>, <<"b", "y", "e">> }],
     [type |-> "clear", keywords |-> { <<"c", "l", "e", "a", "r">>, <<"r", "e", "s", "e", "t">>, <<"s", "t", "a", "r", "t", " ", "o", "v", "e", "r">> }],
     [type |-> "repeat", keywords |-> { <<"r", "e", "p", "e", "a", "t">>, <<"s", "a", "y", " ", "a", "g", "a", "i", "n">>, <<"w", "h", "a", "t", " ", "d", "i", "d", " ", "y", "o", "u", " ", "s", "a", "y">> }] >>

\* KenkiVoiceInterface._classify_command: the first type one of whose
\* keywords occurs in the text
classified(i) == IF i = 0 THEN "general" ELSE voice_commands[i].type
_classify_command(text) ==
  classified(leftmost({i \in 1..Len(voice_commands) :
                         any_in(voice_commands[i].keywords, lower(text))}))

\* str.replace(w, ''): every occurrence of w removed, left to right
RECURSIVE remove_all(_, _)
remove_all(s, w) ==
  IF s = <<>> \/ w = <<>> THEN s
  ELSE IF at(s, 0, w) THEN remove_all(SubSeq(s, Len(w) + 1, Len(s)), w)
  ELSE <<Head(s)>> \o remove_all(Tail(s), w)

\* the text between the quote at open and the next one, None without both
quoted_from(text, open) ==
  IF open = 0 \/ \A i \in (open + 1)..Len(text) : text[i] # "\"" THEN None
  ELSE Some(SubSeq(text, open + 1,
                   leftmost({i \in (open + 1)..Len(text) : text[i] = "\""}) - 1))

\* re.findall(r'"([^"]*)"', text)[0] when there is one
first_quoted(text) == quoted_from(text, leftmost({i \in 1..Len(text) : text[i] = "\""}))

\* the class [a-zA-Z0-9\s\-\.\/] of the command patterns
CommandChars == AlphaNum \cup Whitespace \cup {"-", ".", "/"}

\* \s+([a-zA-Z0-9\s\-\.\/]+) right after position e, where w characters of
\* whitespace and n characters of the class follow e: group(1), or None when
\* it does not match there
group_of(s, e, w, n) ==
  IF w >= 1 /\ n > w THEN Some(SubSeq(s, e + w + 1, e + n))
  ELSE IF w >= 2 THEN Some(SubSeq(s, e + w, e + w))
  ELSE None
group_after(s, e) ==
  IF e = 0 THEN None
  ELSE group_of(s, e, run(s, e + 1, Whitespace), run(s, e + 1, CommandChars))

\* re.search(words[1]\s+words[2]\s+...\s+(group), text, re.IGNORECASE):
\* the last position of the keyword part of a match starting at p, or 0;
\* next_keyword goes on after the w characters of whitespace behind position e
RECURSIVE keywords_at(_, _, _)
RECURSIVE next_keyword(_, _, _, _)
next_keyword(s, e, w, words) ==
  IF words = <<>> THEN e
  ELSE IF w = 0 THEN 0
  ELSE keywords_at(s, e + w + 1, words)
keywords_at(s, p, words) ==
  IF ~at(lower(s), p - 1, Head(words)) THEN 0
  ELSE next_keyword(s, p + Len(Head(words)) - 1,
                    run(s, p + Len(Head(words)), Whitespace), Tail(words))

\* group(1) of the leftmost match of the pattern, or None
pattern_search(s, words) ==
  first_some([p \in 1..Len(s) |-> group_after(s, keywords_at(s, p, words))])

\* the command_patterns of _extract_command, in order
command_patterns ==
  << << <<"c", "o", "m", "m", "a", "n", "d">> >>, << <<"t", "o", "o", "l">> >>, << <<"e", "x", "p", "l", "a", "i", "n">> >>,
     << <<"w", "h", "a", "t">>, <<"i", "s">> >>, << <<"h", "o", "w">>, <<"d", "o", "e", "s">> >> >>

\* an optional text, stripped
stripped(option) == IF option.some THEN Some(strip(option.val)) ELSE None

\* KenkiVoiceInterface._extract_command: the quoted text, or else the group
\* of the first pattern that matches
_extract_command(text) ==
  first_some(<< first_quoted(text),
                stripped(first_some([i \in 1..Len(command_patterns) |->
                                       pattern_search(text, command_patterns[i])])) >>)

\* the prefixes of _extract_request, in order
request_prefixes ==
  << <<"t", "r", "a", "n", "s", "l", "a", "t", "e">>, <<"c", "o", "n", "v", "e", "r", "t">>, <<"f", "i", "n", "d", " ", "c", "o", "m", "m", "a", "n", "d">>, <<"g", "e", "t", " ", "c", "o", "m", "m", "a", "n", "d">>, <<"m", "a", "k", "e", " ", "c", "o", "m", "m", "a", "n", "d">> >>

\* the text without the prefix numbered i (i = 0: no prefix), None when empty
request_after(text, i) ==
  IF i = 0 THEN (IF text # <<>> THEN Some(text) ELSE None)
  ELSE IF strip(SubSeq(text, Len(request_prefixes[i]) + 1, Len(text))) # <<>>
    THEN Some(strip(SubSeq(text, Len(request_prefixes[i]) + 1, Len(text))))
  ELSE None

\* KenkiVoiceInterface._extract_request
_extract_request(text) ==
  request_after(text, leftmost({i \in 1..Len(request_prefixes) :
                                  startswith(lower(text), request_prefixes[i])}))

\* the tools of KenkiVoiceInterface._extract_target, in order
voice_tools ==
  << <<"n", "m", "a", "p">>, <<"m", "e", "t", "a", "s", "p", "l", "o", "i", "t">>, <<"s", "q", "l", "m", "a", "p">>, <<"h", "y", "d", "r", "a">>, <<"j", "o", "h", "n">>, <<"h", "a", "s", "h", "c", "a", "t">>,
     <<"a", "i", "r", "c", "r", "a", "c", "k">>, <<"w", "i", "r", "e", "s", "h", "a", "r", "k">>, <<"v", "o", "l", "a", "t", "i", "l", "i", "t", "y">>, <<"g", "h", "i", "d", "r", "a">>, <<"r", "a", "d", "a", "r", "e", "2">>,
     <<"n", "i", "k", "t", "o">>, <<"d", "i", "r", "b">>, <<"w", "p", "s", "c", "a", "n">>, <<"j", "o", "o", "m", "s", "c", "a", "n">>, <<"m", "a", "l", "t", "e", "g", "o">>, <<"r", "e", "c", "o", "n", "-", "n", "g">> >>

\* the tool numbered i, None for i = 0
tool_at(i) == IF i = 0 THEN None ELSE Some(voice_tools[i])

\* KenkiVoiceInterface._extract_target: the first tool the text names, or
\* else the quoted text
KenkiVoiceInterface_extract_target(text) ==
  first_some(<< tool_at(leftmost({i \in 1..Len(voice_tools) :
                                    In(voice_tools[i], lower(text))})),
                first_quoted(text) >>)

\* KenkiVoiceInterface._get_help_text
_get_help_text ==
  <<"\n", " ", " ", " ", " ", " ", " ", " ", " ", "I", " ", "c", "a", "n", " ", "h", "e", "l", "p", " ", "y", "o", "u", " ", "w", "i", "t", "h", " ", "s", "e", "c", "u", "r", "i", "t", "y", " ", "t", "e", "s", "t", "i", "n", "g", " ", "t", "a", "s", "k", "s", ".", " ", "H", "e", "r", "e", " ", "a", "r", "e", " ", "s", "o", "m", "e", " ", "v", "o", "i", "c", "e", " ", "c", "o", "m", "m", "a", "n", "d", "s", ":", "\n", " ", " ", " ", " ", " ", " ", " ", " ", "\n", " ", " ", " ", " ", " ", " ", " ", " ", "U+2022", " ", "\"", "E", "x", "p", "l", "a", "i", "n", " ", "n", "m", "a", "p", "\"", " ", "-", " ", "G", "e", "t", " ", "d", "e", "t", "a", "i", "l", "e", "d", " ", "e", "x", "p", "l", "a", "n", "a", "t", "i", "o", "n", " ", "o", "f", " ", "a", " ", "c", "o", "m", "m", "a", "n", "d", "\n", " ", " ", " ", " ", " ", " ", " ", " ", "U+2022", " ", "\"", "T", "r", "a", "n", "s", "l", "a", "t", "e", " ", "f", "i", "n", "d", " ", "o", "p", "e", "n", " ", "p", "o", "r", "t", "s", "\"", " ", "-", " ", "C", "o", "n", "v", "e", "r", "t", " ", "t", "o", " ", "s", "h", "e", "l", "l", " ", "c", "o", "m", "m", "a", "n", "d", "\n", " ", " ", " ", " ", " ", " ", " ", " ", "U+2022", " ", "\"", "A", "n", "a", "l", "y", "z", "e", " ", "m", "e", "t", "a", "s", "p", "l", "o", "i", "t", "\"", " ", "-", " ", "G", "e", "t", " ", "t", "o", "o", "l", " ", "g", "u", "i", "d", "a", "n", "c", "e", "\n", " ", " ", " ", " ", " ", " ", " ", " ", "U+2022", " ", "\"", "H", "e", "l", "p", "\"", " ", "-", " ", "S", "h", "o", "w", " ", "t", "h", "i", "s", " ", "h", "e", "l", "p", "\n", " ", " ", " ", " ", " ", " ", " ", " ", "U+2022", " ", "\"", "S", "t", "o", "p", "\"", " ", "-", " ", "E", "x", "i", "t", " ", "v", "o", "i", "c", "e", " ", "m", "o", "d", "e", "\n", " ", " ", " ", " ", " ", " ", " ", " ", "\n", " ", " ", " ", " ", " ", " ", " ", " ", "Y", "o", "u", " ", "c", "a", "n", " ", "a", "l", "s", "o", " ", "a", "s", "k", " ", "m", "e", " ", "g", "e", "n", "e", "r", "a", "l", " ", "q", "u", "e", "s", "t", "i", "o", "n", "s", " ", "a", "b", "o", "u", "t", " ", "s", "e", "c", "u", "r", "i", "t", "y", " ", "t", "o", "o", "l", "s", " ", "a", "n", "d", " ", "c", "o", "m", "m", "a", "n", "d", "s", ".", "\n", " ", " ", " ", " ", " ", " ", " ", " ">>

wake_word == <<"k", "e", "n", "k", "i">>
DidNotHear == <<"I", " ", "d", "i", "d", "n", "'", "t", " ", "h", "e", "a", "r", " ", "a", "n", "y", "t", "h", "i", "n", "g", ".", " ", "P", "l", "e", "a", "s", "e", " ", "t", "r", "y", " ", "a", "g", "a", "i", "n", ".">>
Farewell == <<"G", "o", "o", "d", "b", "y", "e", "!", " ", "H", "a", "v", "e", " ", "a", " ", "g", "r", "e", "a", "t", " ", "d", "a", "y", ".">>

\* a response that process_voice_command made itself
Said(type, text, response) ==
  [Handled("process_voice_command", text, "none", <<>>, Return(response, <<>>))
     EXCEPT !.printed = <<>>, !.type = type]
\* a response that a KenkiAssistant operation made
Asked(type, text, by, arg, r) ==
  [Handled("process_voice_command", text, by, arg, r)
     EXCEPT !.val = IF r.exc THEN <<"S", "o", "r", "r", "y", ",", " ", "I", " ", "e", "n", "c", "o", "u", "n", "t", "e", "r", "e", "d", " ", "a", "n", " ", "e", "r", "r", "o", "r", ":", " ">> \o ExcText ELSE r.val,
            !.exc = FALSE, !.printed = <<>>, !.type = type]

\* the stop branch without self.is_listening = False
stop_keeps_listening(heard) == Said("stop", heard, Farewell)

\* the stop branch of process_voice_command: the farewell, and
\* self.is_listening = False
stop_response(heard) == [Said("stop", heard, Farewell) EXCEPT !.listening = FALSE]

\* the if/elif chain of process_voice_command on the command type, with what
\* each branch extracts from the text; heard is the text as it came in
respond(cc, ll, heard, text, command_type, command, request, target, co, lo) ==
  CASE command_type = "explain" ->
         IF command.some /\ command.val # <<>>
           THEN Asked(command_type, heard, "explain_command", command.val,
                      explain_command(cc, ll, command.val, co, lo))
           ELSE Said(command_type, heard,
                     <<"P", "l", "e", "a", "s", "e", " ", "s", "p", "e", "c", "i", "f", "y", " ", "w", "h", "a", "t", " ", "c", "o", "m", "m", "a", "n", "d", " ", "y", "o", "u", "'", "d", " ", "l", "i", "k", "e", " ", "m", "e", " ", "t", "o", " ", "e", "x", "p", "l", "a", "i", "n", ".">>)
    [] command_type = "translate" ->
         IF request.some
           THEN Asked(command_type, heard, "translate_to_shell", request.val,
                      translate_to_shell(cc, ll, request.val, co, lo))
           ELSE Said(command_type, heard, <<"P", "l", "e", "a", "s", "e", " ", "t", "e", "l", "l", " ", "m", "e", " ", "w", "h", "a", "t", " ", "y", "o", "u", "'", "d", " ", "l", "i", "k", "e", " ", "m", "e", " ", "t", "o", " ", "d", "o", ".">>)
    [] command_type = "analyze" ->
         IF target.some /\ target.val # <<>>
           THEN Asked(command_type, heard, "analyze_security_tool", target.val,
                      analyze_security_tool(cc, ll, target.val, co, lo))
           ELSE Said(command_type, heard, <<"P", "l", "e", "a", "s", "e", " ", "s", "p", "e", "c", "i", "f", "y", " ", "w", "h", "a", "t", " ", "y", "o", "u", "'", "d", " ", "l", "i", "k", "e", " ", "m", "e", " ", "t", "o", " ", "a", "n", "a", "l", "y", "z", "e", ".">>)
    [] command_type = "help" -> Said(command_type, heard, _get_help_text)
    [] command_type = "stop" -> stop_response(heard)
    [] command_type = "clear" ->
         Said(command_type, heard, <<"S", "t", "a", "r", "t", "i", "n", "g", " ", "f", "r", "e", "s", "h", ".", " ", "H", "o", "w", " ", "c", "a", "n", " ", "I", " ", "h", "e", "l", "p", " ", "y", "o", "u", "?">>)
    [] command_type = "repeat" ->
         Said(command_type, heard, <<"I", " ", "d", "o", "n", "'", "t", " ", "h", "a", "v", "e", " ", "a", " ", "p", "r", "e", "v", "i", "o", "u", "s", " ", "r", "e", "s", "p", "o", "n", "s", "e", " ", "t", "o", " ", "r", "e", "p", "e", "a", "t", ".">>)
    [] OTHER ->
         Asked(command_type, heard, "explain_command", text,
               explain_command(cc, ll, text, co, lo))

\* process_voice_command once the wake word is removed from the text
process_text(cc, ll, heard, text, co, lo) ==
  respond(cc, ll, heard, text, _classify_command(text), _extract_command(text),
          _extract_request(text), KenkiVoiceInterface_extract_target(text), co, lo)

\* KenkiVoiceInterface.process_voice_command: val is the response; listening
\* is FALSE when it set self.is_listening = False
process_voice_command(cc, ll, heard, co, lo) ==
  IF heard = <<>> THEN Said("none", heard, DidNotHear)
  ELSE process_text(cc, ll, heard,
                    IF In(lower(wake_word), heard)
                      THEN strip(remove_all(heard, lower(wake_word))) ELSE heard,
                    co, lo)

\* the test of start_voice_mode that ends the loop after a response
says_goodbye(response) == In(<<"g", "o", "o", "d", "b", "y", "e">>, lower(response)) \/ In(<<"s", "t", "o", "p">>, lower(response))

(***************************************************************************)
(* Inputs                                                                  *)
(***************************************************************************)
Requests ==
  { <<"e", "x", "p", "l", "a", "i", "n", " ", "n", "m", "a", "p", " ", "-", "s", "S", " ", "-", "p", " ", "8", "0", " ", "t", "a", "r", "g", "e", "t", ".", "c", "o", "m">>, <<"e", "x", "p", "l", "a", "i", "n", " ", "l", "s", " ", "-", "l", "a">>, <<"E", "x", "p", "l", "a", "i", "n", " ", "n", "m", "a", "p">>,
    <<"t", "r", "a", "n", "s", "l", "a", "t", "e", " ", "f", "i", "n", "d", " ", "a", "l", "l", " ", "o", "p", "e", "n", " ", "p", "o", "r", "t", "s">>, <<"t", "r", "a", "n", "s", "l", "a", "t", "e", " ", "l", "i", "s", "t", " ", "f", "i", "l", "e", "s">>,
    <<"t", "r", "a", "n", "s", "l", "a", "t", "e", " ", "s", "c", "a", "n", " ", "n", "e", "t", "w", "o", "r", "k", " ", "1", "0", ".", "0", ".", "0", ".", "5">>, <<"a", "n", "a", "l", "y", "z", "e", " ", "m", "e", "t", "a", "s", "p", "l", "o", "i", "t">>,
    <<"l", "o", "g", " ", "/", "v", "a", "r", "/", "l", "o", "g", "/", "a", "u", "t", "h", ".", "l", "o", "g">>, <<"n", "m", "a", "p", " ", "-", "s", "S", " ", "t", "a", "r", "g", "e", "t", ".", "c", "o", "m">>, <<"w", "h", "a", "t", " ", "i", "s", " ", "l", "s">>,
    <<"g", "e", "t", " ", "w", "i", "f", "i", " ", "p", "a", "s", "s", "w", "o", "r", "d">>, <<"H", "o", "w", " ", "t", "o", " ", "c", "h", "e", "c", "k", " ", "p", "o", "r", "t", "s">> }
Lines ==
  Requests \cup { <<>>, <<" ", " ", " ">>, <<"q", "u", "i", "t">>, <<" ", "Q", "U", "I", "T", " ">>, <<"E", "x", "i", "t">>, <<"q">>, <<"Q", "\n">>,
                  <<"h", "e", "l", "p">>, <<" ", "H", "e", "l", "p", " ">>, <<"q", "u", "i", "t", " ", "n", "o", "w">>, <<"h", "e", "l", "p", "e", "r">> }
Queries == Requests \cup { <<" ", " ", " ">>, <<"q", "u", "i", "t">>, <<"h", "e", "l", "p">> }
Tools == { <<"m", "e", "t", "a", "s", "p", "l", "o", "i", "t">> }
LogPaths == { <<"/", "v", "a", "r", "/", "l", "o", "g", "/", "a", "u", "t", "h", ".", "l", "o", "g">> }
LongLog == [i \in 1..(LogLimit + 1) |-> IF i <= LogLimit THEN "a" ELSE "b"]
Files == { NoFile, Unreadable, File(<<"F", "a", "i", "l", "e", "d", " ", "p", "a", "s", "s", "w", "o", "r", "d", " ", "f", "o", "r", " ", "r", "o", "o", "t">>), File(LongLog) }
ArgSets ==
  { Args(i, a, l, q) : i \in BOOLEAN, a \in Tools \cup {<<>>},
                       l \in LogPaths \cup {<<>>}, q \in Queries \cup {<<>>} }

\* the configuration files: none, bytes that are no text, text that is no
\* JSON, and objects with or without a key and a "local_llm" section
ConfigFiles ==
  { ConfigFile(FALSE, FALSE, FALSE, <<>>, "absent"),
    ConfigFile(TRUE, FALSE, FALSE, <<>>, "absent"),
    ConfigFile(TRUE, TRUE, FALSE, <<>>, "absent") }
  \cup { ConfigFile(TRUE, TRUE, TRUE, <<"s", "k", "-", "a", "n", "t", "-", "k", "e", "y">>, "enabled"),
         ConfigFile(TRUE, TRUE, TRUE, <<>>, "disabled"),
         ConfigFile(TRUE, TRUE, TRUE, <<>>, "absent") }
Environments ==
  { Environment(c, l, a, m, o) :
      c \in BOOLEAN, l \in BOOLEAN, a \in BOOLEAN, m \in BOOLEAN, o \in BOOLEAN }

\* the commands explain is given by a client: a tool name or another word,
\* bare or with arguments, with or without leading whitespace; and blanks
ExplainCommands ==
  { lead \o word \o rest :
      lead \in { <<>>, <<" ", " ">> },
      word \in { <<"n", "m", "a", "p">>, <<"N", "m", "a", "p">>, <<"N", "M", "A", "P">>, <<"n", "m", "a", "p", "x">>, <<"a", "i", "r", "c", "r", "a", "c", "k", "-", "n", "g">>, <<"a", "i", "r", "c", "r", "a", "c", "k">>,
                  <<"r", "e", "c", "o", "n", "-", "n", "g">>, <<"o", "p", "e", "n", "v", "a", "s">>, <<"z", "a", "p">>, <<"m", "e", "t", "a", "s", "p", "l", "o", "i", "t">>, <<"l", "s">>, <<"s", "u", "d", "o">> },
      rest \in { <<>>, <<" ", "-", "s", "S", " ", "t", "a", "r", "g", "e", "t", ".", "c", "o", "m">>, <<"\t", "n", "m", "a", "p", " ">> } }
  \cup { <<>>, <<" ", " ", " ">>, <<"\n", "\t">> }

\* the texts _extract_target is given by a client: a word that is or
\* resembles an address, a domain name or localhost, alone or after and
\* before other words
Texts ==
  { before \o word \o behind :
      before \in { <<>>, <<"s", "c", "a", "n", " ">>, <<"x">> },
      word \in { <<"1", "0", ".", "0", ".", "0", ".", "5">>, <<"1", "2", "7", ".", "0", ".", "0", ".", "1">>, <<"1", ".", "2", ".", "3">>, <<"1", ".", "2", ".", "3", ".", "4", "5", "6", "7">>, <<"e", "x", "a", "m", "p", "l", "e", ".", "c", "o", "m">>,
                  <<"m", "y", "-", "s", "i", "t", "e", ".", "e", "x", "a", "m", "p", "l", "e", ".", "c", "o">>, <<"h", "o", "s", "t", ".", "c">>, <<"l", "o", "c", "a", "l", "h", "o", "s", "t">>, <<"L", "o", "c", "a", "l", "h", "o", "s", "t">>,
                  <<"l", "o", "c", "a", "l", "h", "o", "s", "t", "s">>, <<"t", "h", "e", " ", "n", "e", "t", "w", "o", "r", "k">>, <<>> },
      behind \in { <<>>, <<" ", "o", "r", " ", "e", "x", "a", "m", "p", "l", "e", ".", "o", "r", "g">>, <<" ", "o", "r", " ", "1", "9", "2", ".", "1", "6", "8", ".", "0", ".", "9">>, <<" ", "o", "n", " ", "l", "o", "c", "a", "l", "h", "o", "s", "t">>, <<"_">> } }

\* the commands validate_command is given: a first part, whitespace or none,
\* and a second part; and some whole commands
Commands ==
  { a \o s \o b :
      a \in { <<"r", "m">>, <<"s", "u", "d", "o", " ", "R", "M">>, <<"d", "d">>, <<"m", "k", "f", "s">>, <<"r", "e", "f", "o", "r", "m", "a", "t">>, <<"c", "h", "m", "o", "d">>, <<"n", "m", "a", "p">>,
               <<"j", "o", "h", "n">>, <<"e", "c", "h", "o">> },
      s \in { <<" ">>, <<"\t", " ">>, <<>> },
      b \in { <<"-", "r", "f", " ", "/">>, <<"-", "r", "f", " ", " ", "/", "t", "m", "p">>, <<"i", "f", "=", "/", "d", "e", "v", "/", "z", "e", "r", "o">>, <<"7", "7", "7", " ", "/">>, <<"1", "0", ".", "0", ".", "0", ".", "5">>,
               <<"/", "d", "e", "v", "/", "s", "d", "a", " ", ";", " ", "s", "h", "r", "e", "d", " ", "x">>, <<"-", "r", " ", "f", "i", "l", "e">> } }
  \cup { <<>>, <<":", "(", ")", "{", " ", ":", "|", ":", "&", " ", "}", ";", ":">>, <<":", "(", ")", " ", "{", " ", ":", " ", "|", " ", ":", " ", "&", " ", "}">>, <<"c", "h", "o", "w", "n", " ", "r", "o", "o", "t", " ", "/">>, <<"f", "d", "i", "s", "k", " ", "-", "l">>,
          <<"w", "i", "p", "e", " ", "d", "i", "s", "k">>, <<"d", "i", "r", "b", " ", "h", "t", "t", "p", ":", "/", "/", "x">>, <<"r", "m", " ", "-", "r", "f", " ", "/", " ", "&", "&", " ", "m", "k", "f", "s", " ", "/", "d", "e", "v", "/", "s", "d", "a">>,
          <<"N", "M", "A", "P", " ", "1", "0", ".", "0", ".", "0", ".", "5">>, <<"n", "m", "a", "p", " ", "1", "0", ".", "0", ".", "0">>, <<"l", "s", " ", "-", "l", "a">> }

\* what a call to a backend can do: nothing is called when it is not configured
OutcomesOf(configured) == IF configured THEN Outcomes ELSE {Raises}

\* what the speech recogniser can hear (listen() lowers it); <<>> is None
Heard ==
  { <<>>, <<"S", "t", "o", "p">>, <<"k", "e", "n", "k", "i", " ", "g", "o", "o", "d", "b", "y", "e">>, <<"s", "t", "o", "p", " ", "s", "c", "a", "n", "n", "i", "n", "g", " ", "t", "h", "e", " ", "n", "e", "t", "w", "o", "r", "k">>, <<"e", "x", "p", "l", "a", "i", "n", " ", "n", "m", "a", "p">>,
    <<"e", "x", "p", "l", "a", "i", "n", " ", "h", "o", "w", " ", "t", "o", " ", "s", "t", "o", "p", " ", "a", " ", "s", "e", "r", "v", "i", "c", "e">>, <<"t", "r", "a", "n", "s", "l", "a", "t", "e", " ", "f", "i", "n", "d", " ", "o", "p", "e", "n", " ", "p", "o", "r", "t", "s">>,
    <<"t", "r", "a", "n", "s", "l", "a", "t", "e", " ", "l", "i", "s", "t", " ", "f", "i", "l", "e", "s">>, <<"a", "n", "a", "l", "y", "z", "e", " ", "m", "e", "t", "a", "s", "p", "l", "o", "i", "t">>, <<"h", "e", "l", "p">>, <<"s", "a", "y", " ", "a", "g", "a", "i", "n">>,
    <<"s", "t", "a", "r", "t", " ", "o", "v", "e", "r">>, <<"n", "m", "a", "p">>, <<"t", "r", "a", "n", "s", "l", "a", "t", "e", " ", "w", "h", "a", "t", " ", "i", "s", " ", "m", "y", " ", "i", "p">>, <<"a", "n", "a", "l", "y", "z", "e", " ", "t", "h", "e", " ", "n", "e", "t", "w", "o", "r", "k">> }
VoiceCommands == Heard \cup { <<"e", "x", "p", "l", "a", "i", "n", " ", "\"", "n", "m", "a", "p", " ", "-", "s", "S", "\"">> }
SpeakTexts == { <<"S", "c", "a", "n", " ", "c", "o", "m", "p", "l", "e", "t", "e">> }

\* background speech threads that can be started (thread 0 is the main thread)
MaxThreads == 2
Threads == 0..MaxThreads

Welcome == <<"W", "e", "l", "c", "o", "m", "e", " ", "t", "o", " ", "K", "E", "N", "K", "I", " ", "O", "S", " ", "v", "o", "i", "c", "e", " ", "i", "n", "t", "e", "r", "f", "a", "c", "e", ".", " ", "H", "o", "w", " ", "c", "a", "n", " ", "I", " ", "h", "e", "l", "p", " ", "y", "o", "u", "?">>
StoppedByUser == <<"V", "o", "i", "c", "e", " ", "m", "o", "d", "e", " ", "s", "t", "o", "p", "p", "e", "d", " ", "b", "y", " ", "u", "s", "e", "r", ".">>

(***************************************************************************)
(* State                                                                   *)
(***************************************************************************)
VARIABLES
  config_file,    \* the configuration file the assistant was constructed from
  claude_client,  \* KenkiAssistant.claude_client is set (not None)
  local_llm,      \* KenkiAssistant.local_llm is set (not None)
  pc,             \* where the main thread is
  line,           \* the text input() or listen() returned last
  last,           \* the request handled last
  is_listening,   \* KenkiVoiceInterface.is_listening
  is_speaking,    \* KenkiVoiceInterface.is_speaking
  tpc,            \* where each thread is inside speak()
  targ,           \* the text each thread's speak() was called with
  returned        \* the call of a method of a module by a client, with its result

vars == <<config_file, claude_client, local_llm, pc, line, last, is_listening, is_speaking, tpc, targ,
         returned>>

assistant == <<config_file, claude_client, local_llm>>
voice == <<is_listening, is_speaking, tpc, targ>>

Nothing == Unhandled("none", <<>>, "none", <<>>)

\* the state after KenkiAssistant / KenkiVoiceInterface is constructed, at
\* the start of kenki_assist.py main ("main"), of voice.py main
\* ("voice_main"), or of a program that uses a KenkiVoiceInterface ("client")
\* a method of ShellTranslator or CommandExplainer called by a client, and
\* what it returned
Returned(method, arg, value) == [method |-> method, arg |-> arg, value |-> value]

\* the constructor raised: kenki_assist.py main prints and exits, voice.py
\* main prints and returns, a client of the class gets the exception
FailedToInitialize(entry) ==
  Unhandled(entry, <<>>, "init_failed",
            IF entry = "main" THEN <<"U+274C", " ", "F", "a", "i", "l", "e", "d", " ", "t", "o", " ", "i", "n", "i", "t", "i", "a", "l", "i", "z", "e", " ", "a", "s", "s", "i", "s", "t", "a", "n", "t", ":", " ">> \o ExcText
            ELSE IF entry = "voice_main"
              THEN <<"U+274C", " ", "F", "a", "i", "l", "e", "d", " ", "t", "o", " ", "i", "n", "i", "t", "i", "a", "l", "i", "z", "e", " ", "v", "o", "i", "c", "e", " ", "i", "n", "t", "e", "r", "f", "a", "c", "e", ":", " ">> \o ExcText
            ELSE <<>>)

\* the state once KenkiAssistant (for voice.py, inside KenkiVoiceInterface)
\* is constructed from a configuration file, or has failed to be
Init ==
  /\ config_file \in ConfigFiles
  /\ \E env \in Environments, entry \in {"main", "voice_main", "client", "library"} :
       LET constructed(built) ==
             /\ claude_client = built.claude_client
             /\ local_llm = built.local_llm
             /\ pc = IF built.exc THEN "done" ELSE entry
             /\ last = IF built.exc THEN FailedToInitialize(entry) ELSE Nothing
       IN constructed(KenkiAssistant_init(config_file, env))
  /\ line = <<>>
  /\ returned = Returned("none", <<>>, <<>>)
  /\ is_listening = FALSE
  /\ is_speaking = FALSE
  /\ tpc = [t \in Threads |-> IF t = 0 THEN "idle" ELSE "unborn"]
  /\ targ = [t \in Threads |-> <<>>]

(***************************************************************************)
(* kenki_assist.py                                                         *)
(***************************************************************************)
\* kenki_assist.py main()
Main ==
  /\ pc = "main"
  /\ \E args \in ArgSets, file \in Files,
        co \in OutcomesOf(claude_client), lo \in OutcomesOf(local_llm) :
       /\ last' = main(claude_client, local_llm, args, file, co, lo)
       /\ pc' = IF args.interactive THEN "interactive" ELSE "done"
  /\ UNCHANGED <<returned, assistant, line, voice>>

\* interactive_mode: input() returns a line
InteractiveInput ==
  /\ pc = "interactive"
  /\ \E l \in Lines : line' = l
  /\ last' = Nothing
  /\ pc' = "interactive_line"
  /\ UNCHANGED <<returned, assistant, voice>>

\* interactive_mode: the rest of the pass of the loop
InteractiveLine ==
  /\ pc = "interactive_line"
  /\ \E co \in OutcomesOf(claude_client), lo \in OutcomesOf(local_llm) :
       LET pass(step) ==
             /\ last' = step.did
             /\ pc' = IF step.loop THEN "interactive" ELSE "done"
       IN pass(interactive_mode(claude_client, local_llm, line, co, lo))
  /\ UNCHANGED <<returned, assistant, line, voice>>

\* input() raises KeyboardInterrupt: the loop ends
InteractiveKeyboardInterrupt ==
  /\ pc = "interactive"
  /\ last' = Unhandled("interactive_mode", <<>>, "KeyboardInterrupt", <<"\n">> \o Goodbye)
  /\ pc' = "done"
  /\ UNCHANGED <<returned, assistant, line, voice>>

\* input() raises another exception (EOFError): printed, and the loop goes on
InteractiveInputError ==
  /\ pc = "interactive"
  /\ last' = Unhandled("interactive_mode", <<>>, "Exception", <<"U+274C", " ", "E", "r", "r", "o", "r", ":", " ">> \o ExcText)
  /\ pc' = "interactive"
  /\ UNCHANGED <<returned, assistant, line, voice>>

(***************************************************************************)
(* voice.py: speak, one action per statement, by thread t                  *)
(***************************************************************************)
\* if self.is_speaking and interrupt (interrupt is never passed, so True)
SpeakTest(t) ==
  /\ tpc[t] = "test"
  /\ tpc' = [tpc EXCEPT ![t] = IF is_speaking THEN "stop" ELSE "set"]
  /\ UNCHANGED <<returned, assistant, pc, line, last, is_listening, is_speaking, targ>>

\* self.engine.stop()
SpeakStop(t) ==
  /\ tpc[t] = "stop"
  /\ tpc' = [tpc EXCEPT ![t] = "set"]
  /\ UNCHANGED <<returned, assistant, pc, line, last, is_listening, is_speaking, targ>>

\* self.is_speaking = True
SpeakSet(t) ==
  /\ tpc[t] = "set"
  /\ is_speaking' = TRUE
  /\ tpc' = [tpc EXCEPT ![t] = "say"]
  /\ UNCHANGED <<returned, assistant, pc, line, last, is_listening, targ>>

\* self.engine.say(text): returns, or raises into the except clause
SpeakSay(t) ==
  /\ tpc[t] = "say"
  /\ \E raises \in BOOLEAN :
       tpc' = [tpc EXCEPT ![t] = IF raises THEN "finally" ELSE "runAndWait"]
  /\ UNCHANGED <<returned, assistant, pc, line, last, is_listening, is_speaking, targ>>

\* self.engine.runAndWait(): returns or raises, the finally clause is next
SpeakRunAndWait(t) ==
  /\ tpc[t] = "runAndWait"
  /\ tpc' = [tpc EXCEPT ![t] = "finally"]
  /\ UNCHANGED <<returned, assistant, pc, line, last, is_listening, is_speaking, targ>>

\* finally: self.is_speaking = False; speak returns, a background thread ends
SpeakFinally(t) ==
  /\ tpc[t] = "finally"
  /\ is_speaking' = FALSE
  /\ tpc' = [tpc EXCEPT ![t] = IF t = 0 THEN "returned" ELSE "dead"]
  /\ UNCHANGED <<returned, assistant, pc, line, last, is_listening, targ>>

Speak(t) ==
  \/ SpeakTest(t)
  \/ SpeakStop(t)
  \/ SpeakSet(t)
  \/ SpeakSay(t)
  \/ SpeakRunAndWait(t)
  \/ SpeakFinally(t)

\* the threads speak_async started that have not ended
alive == {t \in Threads \ {0} : tpc[t] \notin {"unborn", "dead"}}

\* speak_async keeping a single speech thread: the threads still alive are
\* ended when the new one starts
SpeakAsyncSingle ==
  /\ pc = "client"
  /\ tpc[0] = "idle"
  /\ \E t \in Threads \ {0}, text \in SpeakTexts :
       /\ tpc[t] = "unborn"
       /\ \A u \in Threads \ {0} : u < t => tpc[u] # "unborn"
       /\ tpc' = [u \in Threads |-> IF u = t THEN "test"
                                    ELSE IF u \in alive THEN "dead" ELSE tpc[u]]
       /\ targ' = [targ EXCEPT ![t] = text]
  /\ UNCHANGED <<returned, assistant, pc, line, last, is_listening, is_speaking>>

\* a client calls speak_async(text): a new daemon thread runs speak(text)
SpeakAsync ==
  /\ pc = "client"
  /\ tpc[0] = "idle"
  /\ \E t \in Threads \ {0}, text \in SpeakTexts :
       /\ tpc[t] = "unborn"
       /\ \A u \in Threads \ {0} : u < t => tpc[u] # "unborn"
       /\ tpc' = [tpc EXCEPT ![t] = "test"]
       /\ targ' = [targ EXCEPT ![t] = text]
  /\ UNCHANGED <<returned, assistant, pc, line, last, is_listening, is_speaking>>

\* a client calls speak(text) on the main thread
SpeakCall ==
  /\ pc = "client"
  /\ tpc[0] = "idle"
  /\ \E text \in SpeakTexts :
       /\ tpc' = [tpc EXCEPT ![0] = "test"]
       /\ targ' = [targ EXCEPT ![0] = text]
  /\ UNCHANGED <<returned, assistant, pc, line, last, is_listening, is_speaking>>

\* the client's speak(text) returned
SpeakReturn ==
  /\ pc = "client"
  /\ tpc[0] = "returned"
  /\ tpc' = [tpc EXCEPT ![0] = "idle"]
  /\ UNCHANGED <<returned, assistant, pc, line, last, is_listening, is_speaking, targ>>

(***************************************************************************)
(* voice.py: main and start_voice_mode                                     *)
(***************************************************************************)
\* voice.py main with --interactive: start_voice_mode speaks its welcome
VoiceInteractive ==
  /\ pc = "voice_main"
  /\ tpc' = [tpc EXCEPT ![0] = "test"]
  /\ targ' = [targ EXCEPT ![0] = Welcome]
  /\ pc' = "welcome"
  /\ UNCHANGED <<returned, assistant, line, last, is_listening, is_speaking>>

\* voice.py main with --test: listen() once and print what was heard
VoiceTest ==
  /\ pc = "voice_main"
  /\ \E h \in Heard :
       /\ line' = lower(h)
       /\ last' = Unhandled("voice_main", <<>>, "listen",
                            IF h # <<>> THEN <<"U+2705", " ", "H", "e", "a", "r", "d", ":", " ">> \o lower(h)
                            ELSE <<"U+274C", " ", "N", "o", " ", "s", "p", "e", "e", "c", "h", " ", "d", "e", "t", "e", "c", "t", "e", "d">>)
  /\ pc' = "done"
  /\ UNCHANGED <<returned, assistant, voice>>

\* voice.py main with a command: voice_command(args.command), printed
VoiceCommand ==
  /\ pc = "voice_main"
  /\ \E c \in VoiceCommands \ {<<>>},
        co \in OutcomesOf(claude_client), lo \in OutcomesOf(local_llm) :
       LET print(d) ==
             /\ last' = [d EXCEPT !.via = "voice_command", !.printed = d.val]
             /\ is_listening' = (is_listening /\ d.listening)
       IN print(process_voice_command(claude_client, local_llm, c, co, lo))
  /\ pc' = "done"
  /\ UNCHANGED <<returned, assistant, line, is_speaking, tpc, targ>>

\* voice.py main with no arguments: print_help
VoiceHelp ==
  /\ pc = "voice_main"
  /\ pc' = "done"
  /\ UNCHANGED <<returned, assistant, line, last, voice>>

\* start_voice_mode: the welcome is spoken; self.is_listening = True
Welcomed ==
  /\ pc = "welcome"
  /\ tpc[0] = "returned"
  /\ tpc' = [tpc EXCEPT ![0] = "idle"]
  /\ is_listening' = TRUE
  /\ pc' = "while"
  /\ UNCHANGED <<returned, assistant, line, last, is_speaking, targ>>

\* while self.is_listening
While ==
  /\ pc = "while"
  /\ pc' = IF is_listening THEN "listen" ELSE "done"
  /\ UNCHANGED <<returned, assistant, line, last, voice>>

\* text = self.listen(); if text: ... else the sleep is next
Listen ==
  /\ pc = "listen"
  /\ \E h \in Heard :
       /\ line' = lower(h)
       /\ pc' = IF h # <<>> THEN "process" ELSE "sleep"
  /\ last' = Nothing
  /\ UNCHANGED <<returned, assistant, voice>>

\* response = self.process_voice_command(text), and self.speak(response) is
\* called
Process ==
  /\ pc = "process"
  /\ \E co \in OutcomesOf(claude_client), lo \in OutcomesOf(local_llm) :
       LET speak(d) ==
             /\ last' = d
             /\ is_listening' = (is_listening /\ d.listening)
             /\ targ' = [targ EXCEPT ![0] = d.val]
       IN speak(process_voice_command(claude_client, local_llm, line, co, lo))
  /\ tpc' = [tpc EXCEPT ![0] = "test"]
  /\ pc' = "speak"
  /\ UNCHANGED <<returned, assistant, line, is_speaking>>

\* speak(response) returned: break when the response says goodbye or stop
Spoke ==
  /\ pc = "speak"
  /\ tpc[0] = "returned"
  /\ tpc' = [tpc EXCEPT ![0] = "idle"]
  /\ pc' = IF says_goodbye(last.val) THEN "done" ELSE "sleep"
  /\ UNCHANGED <<returned, assistant, line, last, is_listening, is_speaking, targ>>

\* time.sleep(0.1)
Sleep ==
  /\ pc = "sleep"
  /\ pc' = "while"
  /\ UNCHANGED <<returned, assistant, line, last, voice>>

\* KeyboardInterrupt while the main thread is blocked inside the try of the
\* loop (in listen, in the runAndWait of speak, in sleep): speak's finally
\* runs, and the handler speaks its message
VoiceKeyboardInterrupt ==
  /\ \/ pc \in {"listen", "sleep"}
     \/ pc = "speak" /\ tpc[0] = "runAndWait"
  /\ is_speaking' = FALSE
  /\ tpc' = [tpc EXCEPT ![0] = "test"]
  /\ targ' = [targ EXCEPT ![0] = StoppedByUser]
  /\ pc' = "interrupted"
  /\ UNCHANGED <<returned, assistant, line, last, is_listening>>

\* the handler's message is spoken: break
Interrupted ==
  /\ pc = "interrupted"
  /\ tpc[0] = "returned"
  /\ tpc' = [tpc EXCEPT ![0] = "idle"]
  /\ pc' = "done"
  /\ UNCHANGED <<returned, assistant, line, last, is_listening, is_speaking, targ>>

(***************************************************************************)
(* translate.py, explain.py: methods of the modules called by a client     *)
(***************************************************************************)
\* a client calls assistant.translator.validate_command(command)
ValidateCommand ==
  /\ pc = "library"
  /\ \E command \in Commands :
       returned' = Returned("validate_command", command, validate_command(command))
  /\ pc' = "done"
  /\ UNCHANGED <<assistant, line, last, voice>>

\* a client calls assistant.explainer.explain(command)
ExplainCall ==
  /\ pc = "library"
  /\ \E command \in ExplainCommands,
        co \in OutcomesOf(claude_client), lo \in OutcomesOf(local_llm) :
       returned' = Returned("explain", command,
                            explain(claude_client, local_llm, command, co, lo))
  /\ pc' = "done"
  /\ UNCHANGED <<assistant, line, last, voice>>

\* a client calls assistant.translator._extract_target(text)
ExtractTarget ==
  /\ pc = "library"
  /\ \E text \in Texts :
       returned' = Returned("_extract_target", text, _extract_target(text))
  /\ pc' = "done"
  /\ UNCHANGED <<assistant, line, last, voice>>

Next ==
  \/ Main
  \/ ValidateCommand
  \/ ExplainCall
  \/ ExtractTarget
  \/ InteractiveInput
  \/ InteractiveLine
  \/ InteractiveKeyboardInterrupt
  \/ InteractiveInputError
  \/ \E t \in Threads : Speak(t)
  \/ SpeakAsync
  \/ SpeakCall
  \/ SpeakReturn
  \/ VoiceInteractive
  \/ VoiceTest
  \/ VoiceCommand
  \/ VoiceHelp
  \/ Welcomed
  \/ While
  \/ Listen
  \/ Process
  \/ Spoke
  \/ Sleep
  \/ VoiceKeyboardInterrupt
  \/ Interrupted

Spec == Init /\ [][Next]_vars

(***************************************************************************)
(* Properties                                                              *)
(***************************************************************************)
\* C1 (as the code has it): translate tries the keyword patterns first.  For
\* a non-empty request that contains a phrase of security_patterns the
\* templated command is returned and no backend is called, whatever is
\* configured; only a request that matches no pattern is sent to Claude when
\* it is configured, else to the local LLM; the stripped answer is returned
\* when that call succeeds, and _fallback_translation's text when it raised
\* or nothing is configured.
C1_PatternsFirst ==
  (last.by = "translate_to_shell" /\ strip(last.arg) # <<>>) =>
    LET nl == strip(last.arg)
        pm == _match_security_patterns(strip(last.arg))
    IN IF pm.some THEN last.inner = pm.val /\ last.calls = <<>>
       ELSE IF claude_client \/ local_llm
         THEN /\ Len(last.calls) = 1
              /\ last.calls[1].backend = (IF claude_client THEN "claude" ELSE "local")
              /\ last.calls[1].subject = nl
              /\ last.calls[1].ok => last.inner = strip(last.calls[1].text)
              /\ ~last.calls[1].ok => last.inner = _fallback_translation(nl)
       ELSE last.calls = <<>> /\ last.inner = _fallback_translation(nl)

\* a request with a network_scan phrase, translated from its template while
\* Claude is configured: no backend was called
C1_Witness ==
  /\ last.by = "translate_to_shell"
  /\ last.arg = <<"t", "r", "a", "n", "s", "l", "a", "t", "e", " ", "s", "c", "a", "n", " ", "n", "e", "t", "w", "o", "r", "k", " ", "1", "0", ".", "0", ".", "0", ".", "5">>
  /\ claude_client
  /\ last.calls = <<>>
  /\ last.inner = <<"n", "m", "a", "p", " ", "-", "s", "S", " ", "-", "p", " ", "8", "0", ",", "4", "4", "3", ",", "2", "2", ",", "2", "1", ",", "2", "3", ",", "2", "5", ",", "5", "3", " ", "1", "0", ".", "0", ".", "0", ".", "5">>

\* C1 as stated: patterns are only the fallback, so for every non-empty
\* request with a backend configured the backend is called, and its answer
\* is the command when the call succeeds
C1_PatternsOnlyAsFallback ==
  (last.by = "translate_to_shell" /\ strip(last.arg) # <<>>
     /\ (claude_client \/ local_llm)) =>
    /\ last.calls # <<>>
    /\ last.calls[1].ok => last.inner = strip(last.calls[1].text)

\* C2: KenkiAssistant._get_ai_response (reached through analyze_security_tool
\* and analyze_log_file) calls each backend at most once and in a fixed
\* order: Claude first when it is configured, the local LLM only when Claude
\* is not configured or its call raised; the answer of the call that
\* succeeded is returned, and the fixed "No AI models available" text when
\* every configured backend raised or none is configured.
C2_FixedOrder ==
  (last.by \in {"analyze_security_tool", "analyze_log_file"} /\ last.inner # <<>>) =>
    LET calls == last.calls
        n == Len(last.calls)
    IN /\ n <= 2
       /\ \A i, j \in 1..n : calls[i].backend = calls[j].backend => i = j
       /\ \A i \in 1..n : calls[i].backend \in {"claude", "local"}
       /\ claude_client <=> (n >= 1 /\ calls[1].backend = "claude")
       /\ (\E i \in 1..n : calls[i].backend = "local")
            <=> (local_llm /\ (~claude_client \/ ~calls[1].ok))
       /\ \A i \in 1..n : calls[i].backend = "local" => i = n /\ (i = 2 <=> claude_client)
       /\ (\A i \in 1..n : ~calls[i].ok) <=> last.inner = NoModelsText
       /\ (\E i \in 1..n : calls[i].ok) => calls[n].ok /\ last.inner = calls[n].text

\* Claude raised and the local LLM, asked second, answered
C2_Witness ==
  /\ last.by = "analyze_security_tool"
  /\ Len(last.calls) = 2
  /\ last.calls[1].backend = "claude" /\ ~last.calls[1].ok
  /\ last.calls[2].backend = "local" /\ last.calls[2].ok
  /\ last.inner = last.calls[2].text

\* C3 as stated: in the AI-calling paths of CommandExplainer and
\* ShellTranslator, with both backends configured, a Claude call that raised
\* is followed by a call to the local LLM
C3_LocalTriedAfterClaude ==
  (last.by \in {"explain_command", "translate_to_shell"}
     /\ claude_client /\ local_llm
     /\ Len(last.calls) >= 1 /\ last.calls[1].backend = "claude" /\ ~last.calls[1].ok) =>
    Len(last.calls) >= 2 /\ last.calls[2].backend = "local"

\* C4: explain_command, translate_to_shell, analyze_security_tool and
\* analyze_log_file, called by main or by interactive_mode, return a
\* non-empty string and do not raise, whatever is configured and whatever
\* the backend calls did.
C4_NeverRaises ==
  (last.via \in {"main", "interactive_mode"}
     /\ last.by \in {"explain_command", "translate_to_shell",
                     "analyze_security_tool", "analyze_log_file"}) =>
    ~last.exc /\ last.val # <<>>

\* analyze_security_tool returned although every call it made raised
C4_Witness ==
  /\ last.via = "main"
  /\ last.by = "analyze_security_tool"
  /\ Len(last.calls) = 2
  /\ \A i \in 1..2 : ~last.calls[i].ok
  /\ ~last.exc
  /\ last.val # <<>>

\* C5 (as the code has it): every speak_async call starts one new thread that
\* runs speak once; the threads started earlier and still alive are neither
\* stopped nor waited for, so the number of threads alive grows by one.
C5_OneMoreThread ==
  [][(\E t \in Threads \ {0} : tpc[t] = "unborn" /\ tpc'[t] # "unborn") =>
       /\ \A u \in alive : tpc'[u] = tpc[u]
       /\ Cardinality(alive') = Cardinality(alive) + 1]_vars

\* two speak_async calls, both threads still inside speak
C5_Witness == Cardinality(alive) = 2 /\ \A t \in alive : tpc[t] # "test"

\* C5 as stated: at most one background speech thread is alive at any time
C5_SingleThread == Cardinality(alive) <= 1

\* C6: in start_voice_mode, once a heard text is classified as the stop
\* command, is_listening is False, speak is called with the farewell, and the
\* loop is left (by the break after speak, or by a KeyboardInterrupt during
\* it) without another call of listen.
C6_StopExits ==
  /\ (last.via = "process_voice_command" /\ last.input # <<>>
        /\ _classify_command(IF In(lower(wake_word), last.input)
                               THEN strip(remove_all(last.input, lower(wake_word)))
                               ELSE last.input) = "stop")
       => last.type = "stop"
  /\ (last.via = "process_voice_command" /\ last.type = "stop") =>
       /\ ~is_listening
       /\ last.val = Farewell
       /\ targ[0] \in {Farewell, StoppedByUser}
       /\ pc \in {"speak", "interrupted", "done"}
       /\ pc = "speak" => targ[0] = Farewell

\* "Stop" was heard, the farewell was spoken and the loop has ended
C6_Witness ==
  /\ last.via = "process_voice_command"
  /\ last.input = <<"s", "t", "o", "p">>
  /\ last.type = "stop"
  /\ targ[0] = Farewell
  /\ tpc[0] = "idle"
  /\ pc = "done"

\* C7 as stated: in interactive mode and in one-shot query mode an input
\* "translate <request>" is handled by translate_to_shell
C7_TranslateInput ==
  (last.via \in {"interactive_mode", "main"}
     /\ startswith(lower(strip(last.input)), <<"t", "r", "a", "n", "s", "l", "a", "t", "e", " ">>)) =>
    last.by = "translate_to_shell"

\* C8 as stated: in interactive mode "analyze <tool>" is handled by
\* analyze_security_tool and "log <file>" by analyze_log_file
C8_AnalyzeAndLogInput ==
  last.via = "interactive_mode" =>
    /\ startswith(lower(strip(last.input)), <<"a", "n", "a", "l", "y", "z", "e", " ">>)
         => last.by = "analyze_security_tool"
    /\ startswith(lower(strip(last.input)), <<"l", "o", "g", " ">>) => last.by = "analyze_log_file"

\* C9 as stated: for an input "explain <command>" the text handed to
\* CommandExplainer.explain has the first word of <command> as its main
\* command
C9_ExplainsTheCommand ==
  (last.via \in {"interactive_mode", "main"}
     /\ last.by = "explain_command"
     /\ startswith(lower(strip(last.input)), <<"e", "x", "p", "l", "a", "i", "n", " ">>)) =>
    split(strip(last.arg))[1]
      = split(SubSeq(strip(last.input), 9, Len(strip(last.input))))[1]

\* C10: in interactive mode the line quit, exit or q, in any letter case and
\* with whitespace around it, ends the loop and no operation is called; the
\* line help prints the help, no operation is called and the loop goes on;
\* an empty line is skipped and the loop goes on.
C10_QuitHelpEmpty ==
  (last.via = "interactive_mode" /\ last.by \notin {"KeyboardInterrupt", "Exception"}) =>
    /\ lower(strip(last.input)) \in { <<"q", "u", "i", "t">>, <<"e", "x", "i", "t">>, <<"q">> }
         => /\ last.by = "break"
            /\ last.calls = <<>>
            /\ last.printed = Goodbye
            /\ pc = "done"
    /\ lower(strip(last.input)) = <<"h", "e", "l", "p">>
         => /\ last.by = "_show_help"
            /\ last.calls = <<>>
            /\ last.printed = help_text
            /\ pc = "interactive"
    /\ strip(last.input) = <<>>
         => /\ last.by = "continue"
            /\ last.calls = <<>>
            /\ last.printed = <<>>
            /\ pc = "interactive"

\* " QUIT " was typed and the loop has ended
C10_Witness ==
  /\ last.via = "interactive_mode"
  /\ last.input = <<" ", "Q", "U", "I", "T", " ">>
  /\ last.by = "break"
  /\ pc = "done"

\* C11 as stated: in the voice interface a command that begins with the word
\* explain, translate or analyze is handled by explain_command,
\* translate_to_shell or analyze_security_tool respectively
C11_VoiceFirstWord ==
  (last.via \in {"process_voice_command", "voice_command"} /\ strip(last.input) # <<>>) =>
    LET word == split(lower(last.input))[1]
    IN /\ word = <<"e", "x", "p", "l", "a", "i", "n">> => last.by = "explain_command"
       /\ word = <<"t", "r", "a", "n", "s", "l", "a", "t", "e">> => last.by = "translate_to_shell"
       /\ word = <<"a", "n", "a", "l", "y", "z", "e">> => last.by = "analyze_security_tool"

\* C12 as stated: when the configuration file is missing or is not valid
\* JSON, construction completes, no AI backend is configured, and no request
\* reaches a backend
C12_DefaultsOnBadConfig ==
  (~config_file.exists \/ ~config_file.valid_json) =>
    /\ last.by # "init_failed"
    /\ ~claude_client /\ ~local_llm
    /\ last.calls = <<>>

\* C13: validate_command reports safe = False exactly when the command
\* matches at least one of the dangerous patterns, and its warnings hold one
\* "Dangerous command pattern detected" entry for each pattern that matches;
\* so safe = False implies warnings is non-empty.
C13_SafeIffNoDangerousPattern ==
  returned.method = "validate_command" =>
    LET matching == {i \in DOMAIN dangerous_patterns :
                       dangerous(returned.arg, dangerous_patterns[i])}
        warnings == returned.value.warnings
        detected == {j \in DOMAIN returned.value.warnings :
                       startswith(returned.value.warnings[j],
                                  <<"D", "a", "n", "g", "e", "r", "o", "u", "s", " ", "c", "o", "m", "m", "a", "n", "d", " ", "p", "a", "t", "t", "e", "r", "n", " ", "d", "e", "t", "e", "c", "t", "e", "d", ":", " ">>)}
    IN /\ returned.value.safe <=> matching = {}
       /\ Cardinality(detected) = Cardinality(matching)
       /\ \A i \in matching :
            \E j \in detected :
              warnings[j] = <<"D", "a", "n", "g", "e", "r", "o", "u", "s", " ", "c", "o", "m", "m", "a", "n", "d", " ", "p", "a", "t", "t", "e", "r", "n", " ", "d", "e", "t", "e", "c", "t", "e", "d", ":", " ">>
                              \o dangerous_patterns[i].source
       /\ ~returned.value.safe => warnings # <<>>

\* warnings may be non-empty with safe = True: an nmap command without an
\* address is safe and carries the authorization warning
C13_Witness ==
  /\ returned.method = "validate_command"
  /\ returned.arg = <<"n", "m", "a", "p", " ", "-", "r", " ", "f", "i", "l", "e">>
  /\ returned.value.safe
  /\ returned.value.warnings
       = << <<"N", "e", "t", "w", "o", "r", "k", " ", "s", "c", "a", "n", " ", "w", "i", "t", "h", "o", "u", "t", " ", "s", "p", "e", "c", "i", "f", "i", "c", " ", "t", "a", "r", "g", "e", "t", " ", "-", " ", "e", "n", "s", "u", "r", "e", " ", "y", "o", "u", " ", "h", "a", "v", "e", " ", "a", "u", "t", "h", "o", "r", "i", "z", "a", "t", "i", "o", "n">> >>

\* C14: analyze_log_file on a path that does not exist returns the "Log file
\* not found" message for that path and calls no backend; on an existing file
\* the log text of every prompt it sends is the first 5000 characters of the
\* file, or the whole file when it is shorter.
C14_LogFile ==
  last.by = "analyze_log_file" =>
    /\ ~last.file.exists =>
         /\ last.val = <<"U+274C", " ", "L", "o", "g", " ", "f", "i", "l", "e", " ", "n", "o", "t", " ", "f", "o", "u", "n", "d", ":", " ">> \o last.arg
         /\ last.calls = <<>>
    /\ last.file.exists =>
         \A i \in DOMAIN last.calls :
           /\ last.calls[i].template = LogPrompt
           /\ Len(last.calls[i].subject) <= 5000
           /\ Len(last.calls[i].subject) = 5000
                \/ Len(last.calls[i].subject) = Len(last.file.content)
           /\ last.calls[i].subject
                = SubSeq(last.file.content, 1, Len(last.calls[i].subject))

\* a file of 5001 characters was analyzed: the prompt holds its first 5000
C14_Witness ==
  /\ last.by = "analyze_log_file"
  /\ last.file.exists
  /\ Len(last.file.content) = 5001
  /\ last.calls # <<>>
  /\ Len(last.calls[1].subject) = 5000

\* C15 as stated: in voice mode, once an earlier command has been processed
\* (the text last spoken is its response, no longer the welcome), the
\* response to a repeat command is the response of the previous command
C15_RepeatsLastResponse ==
  [][(pc = "process" /\ pc' = "speak" /\ last'.type = "repeat" /\ targ[0] # Welcome) =>
       last'.val = targ[0]]_vars

\* C16: CommandExplainer.explain sends the tool-specific prompt exactly when
\* the first whitespace-delimited word of the stripped command is, in the
\* same letter case, a key of security_tools, and the generic prompt
\* otherwise, each with the stripped command in it; a blank command gets the
\* "Please provide a command" message and no backend call.
C16_ExplainDispatch ==
  returned.method = "explain" =>
    LET cmd == strip(returned.arg)
        r == returned.value
    IN IF cmd = <<>> THEN r.val = PleaseProvideCommand /\ r.calls = <<>>
       ELSE /\ \A i \in DOMAIN r.calls :
                 /\ r.calls[i].subject = cmd
                 /\ r.calls[i].template = (IF split(cmd)[1] \in security_tools
                                             THEN split(cmd)[1] ELSE GenericPrompt)
            /\ (claude_client \/ local_llm) => r.calls # <<>>
            /\ r.calls = <<>> =>
                 r.val = (IF split(cmd)[1] \in security_tools
                            THEN _fallback_explanation(<<"A", "I", " ", "n", "o", "t", " ", "a", "v", "a", "i", "l", "a", "b", "l", "e">>)
                            ELSE _fallback_explanation(cmd))

\* an nmap command with leading whitespace was sent with the nmap prompt
C16_Witness ==
  /\ returned.method = "explain"
  /\ returned.arg = <<" ", " ", "n", "m", "a", "p", " ", "-", "s", "S", " ", "t", "a", "r", "g", "e", "t", ".", "c", "o", "m">>
  /\ returned.value.calls # <<>>
  /\ returned.value.calls[1].template = <<"n", "m", "a", "p">>
  /\ returned.value.calls[1].subject = <<"n", "m", "a", "p", " ", "-", "s", "S", " ", "t", "a", "r", "g", "e", "t", ".", "c", "o", "m">>

\* C17: whenever CommandExplainer.explain ends in the static fallback
\* explanation (no backend is configured, or the backend call raised), the
\* "Command:" line of that text names the command that was asked about,
\* for the commands of security tools and for all others alike.
C17_FallbackNamesCommand ==
  (/\ returned.method = "explain"
   /\ strip(returned.arg) # <<>>
   /\ \/ returned.value.calls = <<>>
      \/ ~returned.value.calls[Len(returned.value.calls)].ok)
    => returned.value.val = _fallback_explanation(strip(returned.arg))

\* C18: ShellTranslator._extract_target returns a non-empty target: the
\* leftmost match of the IPv4 pattern if the text has one, else the leftmost
\* match of the domain-name pattern, else "localhost" if the text has that
\* word, else "192.168.1.1"; the target is a part of the text or is the
\* default.
C18_TargetByPriority ==
  returned.method = "_extract_target" =>
    LET text == returned.arg
        target == returned.value
        ips == { p \in 1..Len(text) : ip_match(text, p) # 0 }
        domains == { p \in 1..Len(text) : domain_match(text, p) # 0 }
    IN /\ target # <<>>
       /\ \/ target = DefaultTarget
          \/ \E i, j \in 1..Len(text) : target = SubSeq(text, i, j)
       /\ IF ips # {}
            THEN \E p \in ips : /\ \A q \in ips : p <= q
                                /\ target = SubSeq(text, p, ip_match(text, p))
          ELSE IF domains # {}
            THEN \E p \in domains : /\ \A q \in domains : p <= q
                                    /\ target = SubSeq(text, p, domain_match(text, p))
          ELSE IF \E p \in 1..Len(text) : whole_word(text, p, <<"l", "o", "c", "a", "l", "h", "o", "s", "t">>) # 0
            THEN target = <<"l", "o", "c", "a", "l", "h", "o", "s", "t">>
          ELSE target = DefaultTarget

\* a text with a domain name before an address gave the address
C18_Witness ==
  /\ returned.method = "_extract_target"
  /\ returned.arg = <<"s", "c", "a", "n", " ", "e", "x", "a", "m", "p", "l", "e", ".", "c", "o", "m", " ", "o", "r", " ", "1", "9", "2", ".", "1", "6", "8", ".", "0", ".", "9">>
  /\ returned.value = <<"1", "9", "2", ".", "1", "6", "8", ".", "0", ".", "9">>

\* C19: under any interleaving of speak and speak_async calls, at most one
\* thread at a time is between the engine's say and the return of its
\* runAndWait.
C19_OneThreadInEngine ==
  Cardinality({ t \in Threads : tpc[t] \in {"say", "runAndWait"} }) <= 1
====
